---- MODULE Spec2Model ----
(***************************************************************************)
(* Batch transcription queue of the dictation front-end (App component):   *)
(* the list of batch files, the Queue Monitor effect, processFile and its  *)
(* asynchronous continuations, the conversion stub, the transcription      *)
(* client and the job store.                                               *)
(*                                                                         *)
(* Texts (file names, transcripts, error messages) are sequences of        *)
(* one-character strings.  The React state `files` is the value obtained   *)
(* by applying the queued updater functions in order; one action is one    *)
(* setFiles call together with the synchronous code around it.  Code that  *)
(* runs in the same synchronous segment as a previous setFiles call is     *)
(* sequenced by pc: while pc.step # "idle" only the continuation of that   *)
(* segment can run (no render, no effect, no other callback).              *)
(*                                                                         *)
(* The module also follows the invoice list and the template merge of the  *)
(* auto-export, one call of transcribeAudioFile on its own, and the live   *)
(* dictation sessions with the view that owns them.  Each part has its own *)
(* next-state relation over the same variables.                            *)
(***************************************************************************)
EXTENDS Integers, Sequences, FiniteSets, TLC

VARIABLES files, ops, nextId, currentUser, isQueueActive, jobs, pc, submitter,
          convSubmitted,
          invoices, templates, exports,
          client,
          sessions, view,
          learning, today, hint,
          norm

\* The invoice list of the App, the stored templates and the template merges
\* made by the auto-export.
exportVars == <<invoices, templates, exports>>

\* One call of transcribeAudioFile followed on its own.
clientVars == <<client>>

\* The live dictation sessions and the view that owns them.
liveVars == <<sessions, view>>

\* The batch queue of the App and its job store.
batchVars == <<files, ops, nextId, currentUser, isQueueActive, jobs, pc, submitter,
               convSubmitted>>

\* The learning entries of the job store, the UTC date of the clock and the
\* learning context processFile read last.
storeVars == <<learning, today, hint>>

\* One text taken through the dictation formatter.
textVars == <<norm>>

vars == <<batchVars, exportVars, clientVars, liveVars, storeVars, textVars>>

(* ------------------------------ bounds -------------------------------- *)

\* Number of files submitted in one run of the model.
MaxFiles == 2
\* Number of submitted files whose name requires conversion.
MaxConv == 1
\* The same two bounds in the runs that fill the queue beyond its slots.
MaxQueueFiles == 4
MaxQueueConv == 1
\* Files handed to one handleFilesAdded call.
MaxBatch == 2
\* Firings of the 800 ms progress interval modelled per transcription call.
MaxTicks == 1
\* Files and conversions in the runs that follow the progress of an item
\* through all its values.
MaxProgressFiles == 1
MaxProgressConv == 1
\* Audio files and invoice images in the runs that follow the auto-export.
MaxExportFiles == 1
MaxInvoices == 2
\* Jobs saved, days the clock passes through and learning entries stored in
\* the runs that follow the job store.
MaxJobs == 2
MaxDays == 2
MaxLearning == 6
\* Files and conversions in the runs that follow the routing by file name.
MaxRoutingFiles == 2
MaxRoutingConv == 1
\* Words of a text handed to the dictation formatter.
MaxWords == 3
\* Pieces (blanks, line breaks, punctuation marks, words) of a text handed to
\* the dictation formatter.
MaxPieces == 4
\* Audio callbacks of a live session that are followed.
MaxFrames == 1
\* Live sessions created, and times the live view is mounted.
MaxSessions == 2
MaxMounts == 2
\* Messages a live session receives from its channel.
MaxMessages == 2

(* ------------------------- program constants -------------------------- *)

\* Mutant: one slot more than the limit.
MAX_CONCURRENT_UPLOADS_PLUS_ONE == 3 + 1

MAX_CONCURRENT_UPLOADS == 3
\* Math.min(..., 90) of the simulated transcription progress.
TickCap == 90
\* progress += 5 of the conversion stub.
ConvertStep == 5
\* progress >= 100 ends the conversion; progress: 100 on completion.
FullProgress == 100

\* 20 * 1024 * 1024 of the size check
MaxPayloadBytes == 20 * 1024 * 1024

\* Mutant: a payload of exactly the limit is rejected too.
tooLargeInclusive(size) == size >= MaxPayloadBytes

\* file.size > 20 * 1024 * 1024
tooLarge(size) == size > MaxPayloadBytes

\* Math.floor(Math.random() * 3) + 1
TickIncrements == {1, 2, 3}

Undefined == "undefined"

QUEUED == "QUEUED"
CONVERTING == "CONVERTING"
READY_TO_TRANSCRIBE == "READY_TO_TRANSCRIBE"
TRANSCRIBING == "TRANSCRIBING"
COMPLETED == "COMPLETED"
ERROR == "ERROR"

FileStatus == {QUEUED, CONVERTING, READY_TO_TRANSCRIBE, TRANSCRIBING, COMPLETED, ERROR}

(* --------------------------- textFormatting --------------------------- *)

UpperCase == <<"A", "B", "C", "D", "E", "F", "G", "H", "I", "J", "K", "L", "M", "N", "O", "P", "Q", "R", "S", "T", "U", "V", "W", "X", "Y", "Z">>
LowerCase == <<"a", "b", "c", "d", "e", "f", "g", "h", "i", "j", "k", "l", "m", "n", "o", "p", "q", "r", "s", "t", "u", "v", "w", "x", "y", "z">>
Digits == {"0", "1", "2", "3", "4", "5", "6", "7", "8", "9"}

Range(s) == { s[i] : i \in DOMAIN s }

IsUpper(c) == c \in Range(UpperCase)
IsLetter(c) == c \in Range(UpperCase) \cup Range(LowerCase)

\* c.toLowerCase() / c.toUpperCase() on one character
ToLower(c) ==
    IF IsUpper(c) THEN LowerCase[CHOOSE i \in DOMAIN UpperCase : UpperCase[i] = c] ELSE c
ToUpper(c) ==
    IF c \in Range(LowerCase)
    THEN UpperCase[CHOOSE i \in DOMAIN LowerCase : LowerCase[i] = c] ELSE c

LowerText(s) == [i \in 1..Len(s) |-> ToLower(s[i])]

\* \w, \s and the punctuation class [.,:;?!] of the regular expressions
IsWordChar(c) == IsLetter(c) \/ c \in Digits \/ c = "_"
IsSpace(c) == c \in {" ", "\t", "\n", "\r"}
IsBlank(c) == c \in {" ", "\t"}
IsPunct(c) == c \in {".", ",", ":", ";", "?", "!"}

\* \b between positions i - 1 and i of s
WordBoundary(s, i) ==
    LET before == i > 1 /\ i - 1 <= Len(s) /\ IsWordChar(s[i - 1])
        after == i >= 1 /\ i <= Len(s) /\ IsWordChar(s[i])
    IN  before # after

\* /\bpat\b/i matches s at position i (pat is given in lower case)
MatchesAt(s, i, pat) ==
    /\ i + Len(pat) - 1 <= Len(s)
    /\ LowerText(SubSeq(s, i, i + Len(pat) - 1)) = pat
    /\ WordBoundary(s, i)
    /\ WordBoundary(s, i + Len(pat))

\* The replacement of one match: the table value, with its first letter in
\* upper case when keepCase and the match starts with an upper-case letter
\* (match[0] === match[0].toUpperCase()).
Replacement(rule, match) ==
    IF rule.keepCase /\ match[1] = ToUpper(match[1]) /\ rule.value # << >>
    THEN <<ToUpper(rule.value[1])>> \o Tail(rule.value)
    ELSE rule.value

RECURSIVE ReplaceFrom(_, _, _)
\* String.replace with a global regular expression /\b(p1|p2|...)\b/gi:
\* leftmost match, first alternative first, then on from the end of the match.
ReplaceFrom(s, i, rules) ==
    IF i > Len(s) THEN << >>
    ELSE LET hits == { k \in DOMAIN rules : MatchesAt(s, i, rules[k].key) }
         IN  IF hits = {} THEN <<s[i]>> \o ReplaceFrom(s, i + 1, rules)
             ELSE LET k == CHOOSE k \in hits : \A j \in hits : k <= j
                      n == Len(rules[k].key)
                  IN  Replacement(rules[k], SubSeq(s, i, i + n - 1))
                        \o ReplaceFrom(s, i + n, rules)

RECURSIVE ReplaceEach(_, _, _)
\* for (const [key, value] of Object.entries(table)) formatted = formatted.replace(...)
ReplaceEach(s, table, k) ==
    IF k > Len(table) THEN s
    ELSE CHOOSE out \in { ReplaceEach(replaced, table, k + 1) :
                            replaced \in {ReplaceFrom(s, 1, <<table[k]>>)} } : TRUE

fillers == <<
    [key |-> <<"u", "m">>, value |-> <<" ">>, keepCase |-> FALSE],
    [key |-> <<"u", "h">>, value |-> <<" ">>, keepCase |-> FALSE],
    [key |-> <<"a", "h">>, value |-> <<" ">>, keepCase |-> FALSE],
    [key |-> <<"l", "i", "k", "e">>, value |-> <<" ">>, keepCase |-> FALSE],
    [key |-> <<"y", "o", "u", " ", "k", "n", "o", "w">>, value |-> <<" ">>, keepCase |-> FALSE],
    [key |-> <<"s", "o", "r", "t", " ", "o", "f">>, value |-> <<" ">>, keepCase |-> FALSE]
    >>

contractions == <<
    [key |-> <<"i", "'", "l", "l">>, value |-> <<"I", " ", "w", "i", "l", "l">>, keepCase |-> TRUE],
    [key |-> <<"c", "a", "n", "'", "t">>, value |-> <<"c", "a", "n", "n", "o", "t">>, keepCase |-> TRUE],
    [key |-> <<"w", "o", "n", "'", "t">>, value |-> <<"w", "i", "l", "l", " ", "n", "o", "t">>, keepCase |-> TRUE],
    [key |-> <<"d", "o", "n", "'", "t">>, value |-> <<"d", "o", " ", "n", "o", "t">>, keepCase |-> TRUE],
    [key |-> <<"d", "o", "e", "s", "n", "'", "t">>, value |-> <<"d", "o", "e", "s", " ", "n", "o", "t">>, keepCase |-> TRUE],
    [key |-> <<"d", "i", "d", "n", "'", "t">>, value |-> <<"d", "i", "d", " ", "n", "o", "t">>, keepCase |-> TRUE],
    [key |-> <<"c", "o", "u", "l", "d", "n", "'", "t">>, value |-> <<"c", "o", "u", "l", "d", " ", "n", "o", "t">>, keepCase |-> TRUE],
    [key |-> <<"s", "h", "o", "u", "l", "d", "n", "'", "t">>, value |-> <<"s", "h", "o", "u", "l", "d", " ", "n", "o", "t">>, keepCase |-> TRUE],
    [key |-> <<"w", "o", "u", "l", "d", "n", "'", "t">>, value |-> <<"w", "o", "u", "l", "d", " ", "n", "o", "t">>, keepCase |-> TRUE],
    [key |-> <<"i", "s", "n", "'", "t">>, value |-> <<"i", "s", " ", "n", "o", "t">>, keepCase |-> TRUE],
    [key |-> <<"a", "r", "e", "n", "'", "t">>, value |-> <<"a", "r", "e", " ", "n", "o", "t">>, keepCase |-> TRUE],
    [key |-> <<"w", "a", "s", "n", "'", "t">>, value |-> <<"w", "a", "s", " ", "n", "o", "t">>, keepCase |-> TRUE],
    [key |-> <<"w", "e", "r", "e", "n", "'", "t">>, value |-> <<"w", "e", "r", "e", " ", "n", "o", "t">>, keepCase |-> TRUE],
    [key |-> <<"h", "a", "s", "n", "'", "t">>, value |-> <<"h", "a", "s", " ", "n", "o", "t">>, keepCase |-> TRUE],
    [key |-> <<"h", "a", "v", "e", "n", "'", "t">>, value |-> <<"h", "a", "v", "e", " ", "n", "o", "t">>, keepCase |-> TRUE],
    [key |-> <<"h", "a", "d", "n", "'", "t">>, value |-> <<"h", "a", "d", " ", "n", "o", "t">>, keepCase |-> TRUE],
    [key |-> <<"i", "t", "'", "s">>, value |-> <<"i", "t", " ", "i", "s">>, keepCase |-> TRUE],
    [key |-> <<"t", "h", "a", "t", "'", "s">>, value |-> <<"t", "h", "a", "t", " ", "i", "s">>, keepCase |-> TRUE],
    [key |-> <<"t", "h", "e", "r", "e", "'", "s">>, value |-> <<"t", "h", "e", "r", "e", " ", "i", "s">>, keepCase |-> TRUE],
    [key |-> <<"w", "h", "o", "'", "s">>, value |-> <<"w", "h", "o", " ", "i", "s">>, keepCase |-> TRUE],
    [key |-> <<"w", "h", "a", "t", "'", "s">>, value |-> <<"w", "h", "a", "t", " ", "i", "s">>, keepCase |-> TRUE],
    [key |-> <<"l", "e", "t", "'", "s">>, value |-> <<"l", "e", "t", " ", "u", "s">>, keepCase |-> TRUE],
    [key |-> <<"w", "e", "'", "r", "e">>, value |-> <<"w", "e", " ", "a", "r", "e">>, keepCase |-> TRUE],
    [key |-> <<"y", "o", "u", "'", "r", "e">>, value |-> <<"y", "o", "u", " ", "a", "r", "e">>, keepCase |-> TRUE],
    [key |-> <<"t", "h", "e", "y", "'", "r", "e">>, value |-> <<"t", "h", "e", "y", " ", "a", "r", "e">>, keepCase |-> TRUE],
    [key |-> <<"i", "'", "m">>, value |-> <<"I", " ", "a", "m">>, keepCase |-> TRUE],
    [key |-> <<"w", "e", "'", "v", "e">>, value |-> <<"w", "e", " ", "h", "a", "v", "e">>, keepCase |-> TRUE],
    [key |-> <<"y", "o", "u", "'", "v", "e">>, value |-> <<"y", "o", "u", " ", "h", "a", "v", "e">>, keepCase |-> TRUE],
    [key |-> <<"t", "h", "e", "y", "'", "v", "e">>, value |-> <<"t", "h", "e", "y", " ", "h", "a", "v", "e">>, keepCase |-> TRUE]
    >>

commands == <<
    [key |-> <<"n", "e", "w", " ", "p", "a", "r", "a", "g", "r", "a", "p", "h">>, value |-> <<"\n", "\n">>, keepCase |-> FALSE],
    [key |-> <<"n", "e", "x", "t", " ", "p", "a", "r", "a", "g", "r", "a", "p", "h">>, value |-> <<"\n", "\n">>, keepCase |-> FALSE],
    [key |-> <<"n", "e", "w", " ", "l", "i", "n", "e">>, value |-> <<"\n">>, keepCase |-> FALSE],
    [key |-> <<"n", "e", "x", "t", " ", "l", "i", "n", "e">>, value |-> <<"\n">>, keepCase |-> FALSE],
    [key |-> <<"f", "u", "l", "l", " ", "s", "t", "o", "p">>, value |-> <<".">>, keepCase |-> FALSE],
    [key |-> <<"p", "e", "r", "i", "o", "d">>, value |-> <<".">>, keepCase |-> FALSE],
    [key |-> <<"c", "o", "m", "m", "a">>, value |-> <<",">>, keepCase |-> FALSE],
    [key |-> <<"c", "o", "l", "o", "n">>, value |-> <<":">>, keepCase |-> FALSE],
    [key |-> <<"s", "e", "m", "i", "-", "c", "o", "l", "o", "n">>, value |-> <<";">>, keepCase |-> FALSE],
    [key |-> <<"s", "e", "m", "i", "c", "o", "l", "o", "n">>, value |-> <<";">>, keepCase |-> FALSE],
    [key |-> <<"q", "u", "e", "s", "t", "i", "o", "n", " ", "m", "a", "r", "k">>, value |-> <<"?">>, keepCase |-> FALSE],
    [key |-> <<"e", "x", "c", "l", "a", "m", "a", "t", "i", "o", "n", " ", "m", "a", "r", "k">>, value |-> <<"!">>, keepCase |-> FALSE],
    [key |-> <<"o", "p", "e", "n", " ", "q", "u", "o", "t", "e">>, value |-> <<"\"">>, keepCase |-> FALSE],
    [key |-> <<"c", "l", "o", "s", "e", " ", "q", "u", "o", "t", "e">>, value |-> <<"\"">>, keepCase |-> FALSE],
    [key |-> <<"o", "p", "e", "n", " ", "b", "r", "a", "c", "k", "e", "t">>, value |-> <<"[">>, keepCase |-> FALSE],
    [key |-> <<"c", "l", "o", "s", "e", " ", "b", "r", "a", "c", "k", "e", "t">>, value |-> <<"]">>, keepCase |-> FALSE],
    [key |-> <<"o", "p", "e", "n", " ", "p", "a", "r", "e", "n", "t", "h", "e", "s", "i", "s">>, value |-> <<"(">>, keepCase |-> FALSE],
    [key |-> <<"c", "l", "o", "s", "e", " ", "p", "a", "r", "e", "n", "t", "h", "e", "s", "i", "s">>, value |-> <<")">>, keepCase |-> FALSE]
    >>

\* end of the maximal run of whitespace that starts at position i
RECURSIVE SpaceRunEnd(_, _)
SpaceRunEnd(s, i) ==
    IF i + 1 <= Len(s) /\ IsSpace(s[i + 1]) THEN SpaceRunEnd(s, i + 1) ELSE i

RECURSIVE DropSpaceBeforePunct(_, _)
\* formatted.replace(/\s+([.,:;?!])/g, '$1')
DropSpaceBeforePunct(s, i) ==
    IF i > Len(s) THEN << >>
    ELSE IF IsSpace(s[i])
              /\ SpaceRunEnd(s, i) + 1 <= Len(s)
              /\ IsPunct(s[SpaceRunEnd(s, i) + 1])
         THEN <<s[SpaceRunEnd(s, i) + 1]>> \o DropSpaceBeforePunct(s, SpaceRunEnd(s, i) + 2)
         ELSE <<s[i]>> \o DropSpaceBeforePunct(s, i + 1)

RECURSIVE SpaceAfterPunct(_, _)
\* formatted.replace(/([.,:;?!])(?=[A-Za-z])/g, '$1 ')
SpaceAfterPunct(s, i) ==
    IF i > Len(s) THEN << >>
    ELSE IF IsPunct(s[i]) /\ i + 1 <= Len(s) /\ IsLetter(s[i + 1])
         THEN <<s[i], " ">> \o SpaceAfterPunct(s, i + 1)
         ELSE <<s[i]>> \o SpaceAfterPunct(s, i + 1)

RECURSIVE CollapseBlanks(_, _)
\* formatted.replace(/[ \t]+/g, ' ')
CollapseBlanks(s, i) ==
    IF i > Len(s) THEN << >>
    ELSE IF IsBlank(s[i])
         THEN IF i > 1 /\ IsBlank(s[i - 1]) THEN CollapseBlanks(s, i + 1)
              ELSE <<" ">> \o CollapseBlanks(s, i + 1)
         ELSE <<s[i]>> \o CollapseBlanks(s, i + 1)

RECURSIVE TrimLeft(_)
TrimLeft(s) == IF s # << >> /\ IsSpace(Head(s)) THEN TrimLeft(Tail(s)) ELSE s

RECURSIVE TrimRight(_)
TrimRight(s) ==
    IF s # << >> /\ IsSpace(s[Len(s)]) THEN TrimRight(SubSeq(s, 1, Len(s) - 1)) ELSE s

\* String.prototype.trim
Trim(s) == TrimRight(TrimLeft(s))

\* Mutant: the blanks before punctuation marks are kept.
CleanupKeepingSpaceBeforePunct(s) ==
    CHOOSE out \in { Trim(single) :
        single \in { CollapseBlanks(spaced, 1) :
            spaced \in {SpaceAfterPunct(s, 1)} } } : TRUE

\* 4. Cleanup Punctuation Spacing, 5. Cleanup Multiple Spaces, trim()
Cleanup(s) ==
    CHOOSE out \in { Trim(single) :
        single \in { CollapseBlanks(spaced, 1) :
            spaced \in { SpaceAfterPunct(tight, 1) :
                tight \in {DropSpaceBeforePunct(s, 1)} } } } : TRUE

formatDictationText(text) ==
    IF text = << >> THEN text
    ELSE CHOOSE out \in { Cleanup(commanded) :
            commanded \in { ReplaceEach(expanded, commands, 1) :
                expanded \in { ReplaceEach(noFillers, contractions, 1) :
                    noFillers \in {ReplaceFrom(text, 1, fillers)} } } } : TRUE

(* ------------------------------- texts -------------------------------- *)

EmptyText == << >>

NoTranscription == <<"N", "o", " ", "t", "r", "a", "n", "s", "c", "r", "i", "p", "t", "i", "o", "n", " ", "g", "e", "n", "e", "r", "a", "t", "e", "d", ".">>
FailedToTranscribe == <<"F", "a", "i", "l", "e", "d", " ", "t", "o", " ", "t", "r", "a", "n", "s", "c", "r", "i", "b", "e", " ", "a", "u", "d", "i", "o", ".">>
ApiKeyInvalid == <<"A", "P", "I", " ", "K", "e", "y", " ", "I", "n", "v", "a", "l", "i", "d", "/", "M", "i", "s", "s", "i", "n", "g">>
ConversionFailed == <<"C", "o", "n", "v", "e", "r", "s", "i", "o", "n", " ", "F", "a", "i", "l", "e", "d">>
TooLarge == <<"F", "i", "l", "e", " ", "i", "s", " ", "t", "o", "o", " ", "l", "a", "r", "g", "e", " ", "f", "o", "r", " ", "b", "r", "o", "w", "s", "e", "r", "-", "b", "a", "s", "e", "d", " ", "p", "r", "o", "c", "e", "s", "s", "i", "n", "g", ".", " ", "P", "l", "e", "a", "s", "e", " ", "u", "s", "e", " ", "f", "i", "l", "e", "s", " ", "u", "n", "d", "e", "r", " ", "2", "0", "M", "B", ".">>
Code401 == <<"4", "0", "1">>
Unauthenticated == <<"U", "N", "A", "U", "T", "H", "E", "N", "T", "I", "C", "A", "T", "E", "D">>

\* s.includes(sub)
Includes(s, sub) ==
    \E i \in 0..(Len(s) - Len(sub)) : SubSeq(s, i + 1, i + Len(sub)) = sub

EndsWith(s, suffix) ==
    /\ Len(s) >= Len(suffix)
    /\ SubSeq(s, Len(s) - Len(suffix) + 1, Len(s)) = suffix

(* --------------------------- conversionService ------------------------ *)

ConversionExtensions ==
    { <<".", "d", "s", "s">>, <<".", "d", "s", "2">>, <<".", "w", "a", "p", "t", "t">> }

\* Mutant: the extension is compared in the letter case it is written in.
needsConversionCaseSensitive(filename) ==
    \E ext \in ConversionExtensions : EndsWith(filename, ext)

\* /\.(dss|ds2|waptt)$/i.test(filename)
needsConversion(filename) ==
    \E ext \in ConversionExtensions : EndsWith(LowerText(filename), ext)

(* ------------------------------- inputs ------------------------------- *)

FileNames == { <<"a", ".", "m", "p", "3">>, <<"b", ".", "D", "S", "S">> }

\* File names with each extension of the dictation devices in some letter
\* case, and names that only contain one.
RoutingNames == { <<"a", ".", "m", "p", "3">>, <<"b", ".", "D", "S", "S">>, <<"c", ".", "d", "s", "2">>, <<"d", ".", "W", "a", "p", "t", "t">>, <<"d", "s", "s", ".", "w", "a", "v">>, <<"e", ".", "d", "s", "s", ".", "m", "p", "3">> }

\* audio.duration of the files, in seconds (a lookup that fails resolves 0,
\* the placeholder).
Durations == {7}

AdminId == "admin-1"
DoctorId == "doctor-1"
Users == {AdminId, DoctorId}
Doctors == {DoctorId}

\* response.text of the remote service
ServiceTexts == { EmptyText, <<"u", "m", " ", "o", "k">> }

\* error.message of a failure inside transcribeAudioFile
ServiceErrors == { EmptyText, <<"H", "T", "T", "P", " ", "4", "0", "1">>, <<"q", "u", "o", "t", "a">> }

\* message of an exception of localStorage / JSON.parse in the job store
StorageError == <<"Q", "u", "o", "t", "a", "E", "x", "c", "e", "e", "d", "e", "d">>

\* file.size of the payloads handed to transcribeAudioFile
PayloadSizes ==
    {0, 1, 1024 * 1024, MaxPayloadBytes - 1, MaxPayloadBytes, MaxPayloadBytes + 1,
     25 * 1024 * 1024, 100 * 1024 * 1024}

\* learningContext: empty, or the notes built from the stored corrections
LearningContexts == { EmptyText, <<"n", "o", "t", "e", "s">> }

\* error.message of a failure of the remote call
ClientErrors == ServiceErrors \cup {Unauthenticated}

\* serverContent.inputTranscription.text of the messages of the live channel
LiveTexts == { EmptyText, <<"u", "m">>, <<"u", "m", " ", "o", "k">> }

Batches == UNION { [1..n -> FileNames] : n \in 1..MaxBatch }

\* Words of a dictated text: fillers, the two words of a filler, a spoken
\* command and a plain word.
Vocabulary == { <<"u", "m">>, <<"y", "o", "u">>, <<"k", "n", "o", "w">>, <<"p", "e", "r", "i", "o", "d">>, <<"o", "k">> }

RECURSIVE JoinWords(_)
JoinWords(words) ==
    IF Len(words) = 1 THEN words[1]
    ELSE words[1] \o <<" ">> \o JoinWords(Tail(words))

\* The text argument of formatDictationText: up to MaxWords words separated
\* by single spaces.
NormInputs == { JoinWords(words) : words \in UNION { [1..n -> Vocabulary] : n \in 1..MaxWords } }

(* ------------------------------ list helpers -------------------------- *)

\* { ...f, ...patch }
Patch(f, patch) == [k \in DOMAIN f |-> IF k \in DOMAIN patch THEN patch[k] ELSE f[k]]

\* newFileObj of handleFilesAdded (an absent error is the empty text)
newFileObj(id, name, targetDoctorId) ==
    [id |-> id, fileName |-> name, ownerId |-> targetDoctorId, status |-> QUEUED,
     progress |-> 0, transcript |-> EmptyText, error |-> EmptyText,
     durationSeconds |-> 0]

Ids(fs) == { fs[i].id : i \in DOMAIN fs }

\* Mutant: an update for an id that is not in the list inserts the item.
MapByIdUpsert(prev, fileId, patch) ==
    IF fileId \in Ids(prev)
    THEN [i \in DOMAIN prev |->
            IF prev[i].id = fileId THEN Patch(prev[i], patch) ELSE prev[i]]
    ELSE Append(prev, Patch(newFileObj(fileId, EmptyText, Undefined), patch))

\* Mutant: the update is applied without comparing ids.
MapByIdAll(prev, fileId, patch) ==
    [i \in DOMAIN prev |-> Patch(prev[i], patch)]

\* prev.map(f => f.id === fileId ? { ...f, ...patch } : f)
MapById(prev, fileId, patch) ==
    [i \in DOMAIN prev |-> IF prev[i].id = fileId THEN Patch(prev[i], patch) ELSE prev[i]]

RECURSIVE FilterOut(_, _)
\* prev.filter(f => f.id !== id)
FilterOut(prev, id) ==
    IF prev = << >> THEN << >>
    ELSE IF Head(prev).id = id THEN FilterOut(Tail(prev), id)
         ELSE <<Head(prev)>> \o FilterOut(Tail(prev), id)

Item(fs, id) == fs[CHOOSE i \in DOMAIN fs : fs[i].id = id]

\* Mutant: items in conversion are not counted as active.
activeJobsTranscribingOnly(fs) ==
    Cardinality({ i \in DOMAIN fs : fs[i].status = TRANSCRIBING })

\* Mutant: failed items keep their slot.
activeJobsCountingFailed(fs) ==
    Cardinality({ i \in DOMAIN fs : fs[i].status \in {CONVERTING, TRANSCRIBING, ERROR} })

\* files.filter(f => f.status === CONVERTING || f.status === TRANSCRIBING).length
activeJobs(fs) ==
    Cardinality({ i \in DOMAIN fs : fs[i].status \in {CONVERTING, TRANSCRIBING} })

\* Mutant: an item that was already started still counts as queued.
queuedJobsOrStarted(fs) == { i \in DOMAIN fs : fs[i].status \in {QUEUED, TRANSCRIBING} }

\* files.filter(f => f.status === QUEUED)
queuedJobs(fs) == { i \in DOMAIN fs : fs[i].status = QUEUED }

\* Mutant: the most recently queued file is taken.
nextFileLast(fs) == fs[CHOOSE i \in queuedJobs(fs) : \A j \in queuedJobs(fs) : i >= j]

\* queuedJobs[0]
nextFile(fs) == fs[CHOOSE i \in queuedJobs(fs) : \A j \in queuedJobs(fs) : i <= j]

(* ------------------------------- state -------------------------------- *)

FileIds == 1..(MaxFiles + MaxQueueFiles)

\* One run of processFile: where it stands, what its closure captured
\* (currentUser, invoices, file.fileName, file.ownerId), the progress counter of
\* convertFile, the firings of progressInterval so far, and the message of the
\* error the transcription call was rejected with.
IdleOp == [phase |-> "none", user |-> Undefined, fileName |-> EmptyText,
           ownerId |-> Undefined, convProgress |-> 0, ticks |-> 0,
           message |-> EmptyText, invoices |-> << >>, starts |-> 0,
           durationSeconds |-> 0]

Idle == [step |-> "idle", id |-> 0]

\* One call of transcribeAudioFile and the catch block of its caller: the
\* payload size and the learning context it was given, the requests it sent
\* to the remote service, why it threw, the message of the error it caught
\* and of the error it threw, the text it returned, and the error the item
\* shows.
ClientIdle ==
    [step |-> "idle", size |-> 0, context |-> EmptyText, remoteCalls |-> 0,
     cause |-> "none", raw |-> EmptyText, message |-> EmptyText,
     result |-> EmptyText, itemError |-> EmptyText]

InitBatch ==
    /\ files = << >>
    /\ ops = [id \in FileIds |-> IdleOp]
    /\ nextId = 1
    /\ currentUser = Undefined
    /\ isQueueActive = FALSE
    /\ jobs = << >>
    /\ pc = Idle
    /\ submitter = [id \in FileIds |-> Undefined]
    /\ convSubmitted = 0

InitExport ==
    /\ invoices = << >>
    /\ templates = {}
    /\ exports = << >>

\* A LiveDictationSession at the first await of connect(): the fields of the
\* object (ctxRef, streamRef, promiseRef: inputAudioContext, audioStream and
\* sessionPromise are not null), the resources behind them (ctxOpen,
\* trackActive, channel, graphConnected), and what happened to it.
\* graphRef: source and processor are set; threw: a call of disconnect() has
\* raised an exception; disconnected: a call of disconnect() has returned.
\* received and delivered: the messages handed to onmessage and the calls of
\* onTranscription; inFlight: messages the library has taken from the channel
\* and not handed to onmessage yet; sent: audio frames handed to the channel.
newSession(mount) ==
    [mount |-> mount, step |-> "awaitMic", failed |-> "none",
     ctxRef |-> TRUE, ctxOpen |-> TRUE,
     streamRef |-> FALSE, trackActive |-> FALSE,
     promiseRef |-> FALSE, channel |-> "none", closeRequested |-> FALSE,
     graphRef |-> FALSE, graphConnected |-> FALSE, errored |-> FALSE,
     onErrorCalled |-> FALSE, earlyDisconnect |-> FALSE, threw |-> FALSE,
     received |-> << >>, delivered |-> << >>,
     inFlight |-> << >>, disconnected |-> FALSE, sent |-> 0]

\* new LiveDictationSession(...) before connect() is called: every field null.
constructedSession(mount) ==
    [newSession(mount) EXCEPT !.step = "constructed", !.ctxRef = FALSE, !.ctxOpen = FALSE]

\* The LiveDictationView is not rendered at first (the App starts in the
\* upload mode); sessionRef 0 is the null ref; transcript is the liveTranscript
\* of the App, which the view receives as a prop.
InitLive ==
    /\ sessions = << >>
    /\ view = [mounted |-> FALSE, mount |-> 0, isActive |-> FALSE, error |-> FALSE,
               sessionRef |-> 0, transcript |-> EmptyText]

\* No learning entry is stored at first (getLearningEntries reads []); today is
\* the position of the current UTC date in Dates; no context has been read.
InitStore ==
    /\ learning = << >>
    /\ today = 1
    /\ hint = EmptyText

\* No text has been given to the formatter.
NormIdle == [step |-> "idle", input |-> EmptyText, once |-> EmptyText, twice |-> EmptyText]

Init ==
    /\ InitBatch
    /\ InitExport
    /\ InitLive
    /\ InitStore
    /\ client = ClientIdle
    /\ norm = NormIdle

\* A call of transcribeAudioFile begins for each payload and context.
InitClient ==
    /\ InitBatch
    /\ InitExport
    /\ InitLive
    /\ InitStore
    /\ norm = NormIdle
    /\ \E size \in PayloadSizes, context \in LearningContexts :
          client = [ClientIdle EXCEPT !.step = "reading", !.size = size,
                                      !.context = context]

\* Pieces of a dictated text: a blank, a tab, a line break, punctuation marks,
\* a letter, a filler and a spoken command.
Pieces == { <<" ">>, <<"\t">>, <<"\n">>, <<".">>, <<",">>, <<"a">>, <<"u", "m">>,
            <<"c", "o", "m", "m", "a">> }

RECURSIVE Concat(_)
Concat(pieces) ==
    IF pieces = << >> THEN << >> ELSE Head(pieces) \o Concat(Tail(pieces))

\* The text argument of formatDictationText: up to MaxPieces pieces in a row.
SpacingInputs == { Concat(pieces) : pieces \in UNION { [1..n -> Pieces] : n \in 1..MaxPieces } }

\* formatDictationText is about to be called with a text of blanks,
\* punctuation marks and words.
InitSpacing ==
    /\ InitBatch
    /\ InitExport
    /\ InitLive
    /\ InitStore
    /\ client = ClientIdle
    /\ \E input \in SpacingInputs : norm = [NormIdle EXCEPT !.step = "input", !.input = input]

\* A spoken command as it is dictated: in lower case, in upper case, or with a
\* capital first letter.
LetterCases == {"lower", "upper", "capital"}

UpperText(s) == [i \in 1..Len(s) |-> ToUpper(s[i])]

Cased(key, case) ==
    IF case = "upper" THEN UpperText(key)
    ELSE IF case = "capital" THEN <<ToUpper(key[1])>> \o Tail(key)
    ELSE key

\* A phrase on its own, or as whole words between two plain words.
Contexts == {"alone", "between"}

InContext(phrase, context) ==
    IF context = "between" THEN <<"o", "k", " ">> \o phrase \o <<" ", "o", "k">>
    ELSE phrase

\* The text argument of formatDictationText: each command of the table, in
\* each letter case and context.
CommandInputs ==
    { InContext(Cased(commands[k].key, case), context) :
        k \in DOMAIN commands, case \in LetterCases, context \in Contexts }

\* formatDictationText is about to be called with a text that holds a command.
InitCommands ==
    /\ InitBatch
    /\ InitExport
    /\ InitLive
    /\ InitStore
    /\ client = ClientIdle
    /\ \E input \in CommandInputs : norm = [NormIdle EXCEPT !.step = "input", !.input = input]

\* formatDictationText is about to be called with each text.
InitNormalizer ==
    /\ InitBatch
    /\ InitExport
    /\ InitLive
    /\ InitStore
    /\ client = ClientIdle
    /\ \E input \in NormInputs : norm = [NormIdle EXCEPT !.step = "input", !.input = input]

(* ------------------------------ session ------------------------------- *)

\* handleLogin: the login overlay is shown while no user is logged in.
Login(u) ==
    /\ pc = Idle
    /\ currentUser = Undefined
    /\ currentUser' = u
    /\ UNCHANGED <<storeVars, textVars, exportVars, clientVars, liveVars, files, ops, nextId, isQueueActive, jobs, pc, submitter, convSubmitted>>

\* onLogout={() => setCurrentUser(null)}
Logout ==
    /\ pc = Idle
    /\ currentUser # Undefined
    /\ currentUser' = Undefined
    /\ UNCHANGED <<storeVars, textVars, exportVars, clientVars, liveVars, files, ops, nextId, isQueueActive, jobs, pc, submitter, convSubmitted>>

(* ---------------------------- list commands --------------------------- *)

NumConv(newFiles) ==
    Cardinality({ i \in DOMAIN newFiles : needsConversion(newFiles[i]) })

\* handleFilesAdded(newFiles, targetDoctorId): the upload view passes the
\* selected doctor when the superadmin uploads and nothing otherwise.
FilesAdded(newFiles, targetDoctorId, maxFiles, maxConv) ==
    /\ pc = Idle
    /\ currentUser # Undefined
    /\ nextId + Len(newFiles) - 1 <= maxFiles
    /\ convSubmitted + NumConv(newFiles) <= maxConv
    /\ convSubmitted' = convSubmitted + NumConv(newFiles)
    /\ IF currentUser = AdminId THEN targetDoctorId \in Doctors
                                ELSE targetDoctorId = Undefined
    /\ files' = files \o [i \in 1..Len(newFiles) |->
                            newFileObj(nextId + i - 1, newFiles[i], targetDoctorId)]
    /\ isQueueActive' = TRUE
    /\ nextId' = nextId + Len(newFiles)
    /\ submitter' = [id \in FileIds |->
                        IF id >= nextId /\ id < nextId + Len(newFiles)
                        THEN currentUser ELSE submitter[id]]
    /\ UNCHANGED <<storeVars, textVars, exportVars, clientVars, liveVars, ops, currentUser, jobs, pc>>

\* handleRemoveFile(id): the remove button is rendered for every item that
\* is not COMPLETED.
RemoveFile(id) ==
    /\ pc = Idle
    /\ currentUser # Undefined
    /\ id \in Ids(files)
    /\ Item(files, id).status # COMPLETED
    /\ files' = FilterOut(files, id)
    /\ UNCHANGED <<storeVars, textVars, exportVars, clientVars, liveVars, ops, nextId, currentUser, isQueueActive, jobs, pc, submitter, convSubmitted>>

\* The duration lookup started by handleFilesAdded resolves for an item:
\* setFiles(prev => prev.map(f => f.id === bf.id ? { ...f, durationSeconds } : f)).
DurationResolved(id, duration) ==
    /\ pc = Idle
    /\ id \in Ids(files)
    /\ Item(files, id).durationSeconds = 0
    /\ files' = MapById(files, id, [durationSeconds |-> duration])
    /\ UNCHANGED <<storeVars, textVars, exportVars, clientVars, liveVars, ops, nextId, currentUser, isQueueActive, jobs, pc, submitter, convSubmitted>>

(* --------------------------- geminiService ---------------------------- *)

\* Mutant: the placeholder for an empty response is missing.
transcribeAudioFileResultRaw(responseText) == responseText

\* return response.text || "No transcription generated."
transcribeAudioFileResult(responseText) ==
    IF responseText = EmptyText THEN NoTranscription ELSE responseText

\* throw new Error(error.message || "Failed to transcribe audio.")
transcribeAudioFileError(message) ==
    IF message = EmptyText THEN FailedToTranscribe ELSE message

(* --------------------------- storageService --------------------------- *)

\* The prefix of a job number.
JobPrefix == <<"J", "O", "B", "-">>

\* String(n) of a non-negative integer.
Digit(n) == <<"0", "1", "2", "3", "4", "5", "6", "7", "8", "9">>[n + 1]

RECURSIVE String(_)
String(n) == IF n < 10 THEN <<Digit(n)>> ELSE String(n \div 10) \o <<Digit(n % 10)>>

\* s.padStart(n, c)
padStart(s, n, c) == IF Len(s) >= n THEN s ELSE [i \in 1..(n - Len(s)) |-> c] \o s

\* new Date().toISOString().slice(0, 10).replace(/-/g, ''): the UTC dates of
\* the days the clock passes through, from 1 January 2025 on.
Dates == [day \in 1..MaxDays |-> <<"2", "0", "2", "5", "0", "1">> \o padStart(String(day), 2, "0")]

\* s.substring(0, n)
substring(s, n) == IF Len(s) <= n THEN s ELSE SubSeq(s, 1, n)

\* Mutant: the sequence number counts every stored job, whatever its date.
dailyCountAll(store, dateStr) == Len(store) + 1

\* jobs.filter(j => j.jobNumber.includes(dateStr)).length + 1
dailyCount(store, dateStr) ==
    Cardinality({ i \in DOMAIN store : Includes(store[i].jobNumber, dateStr) }) + 1

\* `JOB-${dateStr}-${String(dailyCount).padStart(3, '0')}`
jobNumber(store, dateStr) ==
    JobPrefix \o dateStr \o <<"-">> \o padStart(String(dailyCount(store, dateStr)), 3, "0")

\* saveJobRecord(user, fileName, transcript, audioLengthSeconds) on the day
\* Dates[day]: the record is pushed onto the stored list.  The function
\* declares four parameters, a fifth argument is dropped.  id stands for the
\* fresh uuid (the position of the record: records are never removed), and
\* uploadDate for Date.now() (the day).
saveJobRecord(store, day, user, fileName, transcript, audioLengthSeconds, explicitOwnerId) ==
    Append(store, [id |-> Len(store) + 1, jobNumber |-> jobNumber(store, Dates[day]),
                   userId |-> user, fileName |-> fileName, uploadDate |-> day,
                   audioLengthSeconds |-> audioLengthSeconds,
                   charCountWithSpaces |-> Len(transcript),
                   status |-> "PENDING",
                   originalTranscript |-> transcript, finalTranscript |-> transcript,
                   assignedTypistId |-> Undefined])

\* Mutant: an id that is not stored finds the last stored job.
findIndexOrLast(store, jobId) ==
    IF \E i \in DOMAIN store : store[i].id = jobId
    THEN CHOOSE i \in DOMAIN store :
            /\ store[i].id = jobId
            /\ \A j \in DOMAIN store : store[j].id = jobId => i <= j
    ELSE Len(store)

\* jobs.findIndex(j => j.id === jobId); 0 stands for -1.
findIndex(store, jobId) ==
    IF \E i \in DOMAIN store : store[i].id = jobId
    THEN CHOOSE i \in DOMAIN store :
            /\ store[i].id = jobId
            /\ \A j \in DOMAIN store : store[j].id = jobId => i <= j
    ELSE 0

\* assignJob(jobId, typistId, typistName)
assignJob(store, jobId, typistId) ==
    LET index == findIndex(store, jobId)
    IN  IF index # 0
        THEN [store EXCEPT ![index].assignedTypistId = typistId,
                           ![index].status = "ASSIGNED"]
        ELSE store

\* Mutant: finalizeJob also replaces the original transcript.
finalizeJobOverwriting(store, entries, jobId, finalText) ==
    LET index == findIndex(store, jobId)
    IN  IF index = 0 THEN [jobs |-> store, learning |-> entries]
        ELSE [jobs |-> [store EXCEPT ![index].finalTranscript = finalText,
                                     ![index].originalTranscript = finalText,
                                     ![index].status = "FINALIZED",
                                     ![index].charCountWithSpaces = Len(finalText)],
              learning |-> entries]

\* Mutant: finalizeJob stores a learning entry whether or not the text differs.
finalizeJobAlwaysLearning(store, entries, jobId, finalText) ==
    LET index == findIndex(store, jobId)
    IN  IF index = 0 THEN [jobs |-> store, learning |-> entries]
        ELSE [jobs |-> [store EXCEPT ![index].finalTranscript = finalText,
                                     ![index].status = "FINALIZED",
                                     ![index].charCountWithSpaces = Len(finalText)],
              learning |-> Append(entries,
                             [id |-> Len(entries) + 1,
                              originalSnippet |-> substring(store[index].originalTranscript, 100),
                              correctedSnippet |-> substring(finalText, 100)])]

\* finalizeJob(jobId, finalText): the stored jobs and the stored learning
\* entries after the call.  `originalTranscript || ""` is the transcript
\* itself (an undefined one is not stored by saveJobRecord).
finalizeJob(store, entries, jobId, finalText) ==
    LET index == findIndex(store, jobId)
    IN  IF index = 0 THEN [jobs |-> store, learning |-> entries]
        ELSE LET original == store[index].originalTranscript
             IN  [jobs |-> [store EXCEPT ![index].finalTranscript = finalText,
                                         ![index].status = "FINALIZED",
                                         ![index].charCountWithSpaces = Len(finalText)],
                  learning |-> IF original # finalText
                               THEN Append(entries,
                                      [id |-> Len(entries) + 1,
                                       originalSnippet |-> substring(original, 100),
                                       correctedSnippet |-> substring(finalText, 100)])
                               ELSE entries]

\* Mutant: the hint is built from the oldest five entries.
recentEntriesOldest(entries) ==
    SubSeq(entries, 1, IF Len(entries) < 5 THEN Len(entries) ELSE 5)

\* entries.slice(-5)
recentEntries(entries) ==
    SubSeq(entries, IF Len(entries) > 5 THEN Len(entries) - 4 ELSE 1, Len(entries))

\* The texts of the template of getLearningContext.
ContextHeader == <<"\n", " ", " ", " ", " ", "R", "E", "I", "N", "F", "O", "R", "C", "E", "M", "E", "N", "T", " ", "L", "E", "A", "R", "N", "I", "N", "G", " ", "F", "R", "O", "M", " ", "P", "R", "E", "V", "I", "O", "U", "S", " ", "C", "O", "R", "R", "E", "C", "T", "I", "O", "N", "S", ":", "\n", " ", " ", " ", " ">>
ContextFooter == <<"\n", " ", " ", " ", " ">>
NotePrefix == <<"-", " ", "N", "o", "t", "e", " ", "t", "h", "a", "t", " ", "u", "s", "e", "r", "s", " ", "p", "r", "e", "f", "e", "r", " ", "p", "h", "r", "a", "s", "i", "n", "g", " ", "s", "i", "m", "i", "l", "a", "r", " ", "t", "o", ":", " ", "\"">>
NoteSuffix == <<".", ".", ".", "\"">>

\* `- Note that users prefer phrasing similar to: "${e.correctedSnippet.substring(0, 50)}..."`
noteLine(e) == NotePrefix \o substring(e.correctedSnippet, 50) \o NoteSuffix

\* lines.join('\n')
RECURSIVE joinLines(_)
joinLines(lines) ==
    IF Len(lines) = 0 THEN EmptyText
    ELSE IF Len(lines) = 1 THEN lines[1]
    ELSE lines[1] \o <<"\n">> \o joinLines(Tail(lines))

\* getLearningContext()
getLearningContext(entries) ==
    IF Len(entries) = 0 THEN EmptyText
    ELSE ContextHeader
         \o joinLines([i \in 1..Len(recentEntries(entries)) |-> noteLine(recentEntries(entries)[i])])
         \o ContextFooter

\* Typists a job is assigned to.
Typists == {"typist-1"}

\* Transcripts saved with a job, and texts a job is finalized with: the
\* transcript itself, a corrected one, and one longer than the 50 characters a
\* hint line keeps.
JobTexts == { <<"u", "m", " ", "o", "k">> }
LongText == <<"p", "a", "t", "i", "e", "n", "t", " ", "i", "s", " ", "w", "e", "l", "l", " ", "a", "n", "d", " ", "w", "i", "l", "l", " ", "b", "e", " ", "r", "e", "v", "i", "e", "w", "e", "d", " ", "a", "g", "a", "i", "n", " ", "i", "n", " ", "1", " ", "w", "e", "e", "k">>
FinalTexts == { <<"u", "m", " ", "o", "k">>, <<"o", "k">>, LongText }

\* saveJobRecord is called (by processFile, after a transcription completed).
SaveJob(user, fileName, transcript) ==
    /\ Len(jobs) < MaxJobs
    /\ jobs' = saveJobRecord(jobs, today, user, fileName, transcript, 0, Undefined)
    /\ UNCHANGED <<exportVars, clientVars, liveVars, textVars, learning, today, hint, files, ops, nextId, currentUser, isQueueActive, pc, submitter, convSubmitted>>

\* handleAssign of the dashboard: assignJob(jobId, typistId, typistName).
AssignJob(jobId, typistId) ==
    /\ jobs' = assignJob(jobs, jobId, typistId)
    /\ UNCHANGED <<exportVars, clientVars, liveVars, textVars, learning, today, hint, files, ops, nextId, currentUser, isQueueActive, pc, submitter, convSubmitted>>

\* handleFinalizeJob / handleFinalizeBatchFile: finalizeJob(jobId, finalText).
FinalizeJob(jobId, finalText) ==
    /\ Len(finalizeJob(jobs, learning, jobId, finalText).learning) <= MaxLearning
    /\ jobs' = finalizeJob(jobs, learning, jobId, finalText).jobs
    /\ learning' = finalizeJob(jobs, learning, jobId, finalText).learning
    /\ UNCHANGED <<exportVars, clientVars, liveVars, textVars, today, hint, files, ops, nextId, currentUser, isQueueActive, pc, submitter, convSubmitted>>

\* The clock passes midnight UTC.
NextDay ==
    /\ today < MaxDays
    /\ today' = today + 1
    /\ UNCHANGED <<batchVars, exportVars, clientVars, liveVars, textVars, learning, hint>>

\* processFile reads the learning context it hands to transcribeAudioFile.
GetLearningContext ==
    /\ hint' = getLearningContext(learning)
    /\ UNCHANGED <<batchVars, exportVars, clientVars, liveVars, textVars, learning, today>>

(* ----------------------------- processFile ---------------------------- *)

\* Mutant: the unauthenticated condition is not recognised.
ClassifyErrorNone(message) == message

\* Mutant: every failure is shown as an authentication failure.
ClassifyErrorAlways(message) == ApiKeyInvalid

\* errorMsg of the catch block of the transcription phase
ClassifyError(message) ==
    IF Includes(message, Code401) \/ Includes(message, Unauthenticated)
    THEN ApiKeyInvalid ELSE message

\* Queue Monitor effect, with the synchronous head of processFile.
QueueMonitor ==
    /\ pc = Idle
    /\ isQueueActive
    /\ activeJobs(files) < MAX_CONCURRENT_UPLOADS
    /\ queuedJobs(files) # {}
    /\ LET file == nextFile(files)
           conv == needsConversion(file.fileName)
       IN  /\ files' = MapById(files, file.id,
                         [status |-> IF conv THEN CONVERTING ELSE TRANSCRIBING,
                          progress |-> 0])
           /\ ops' = [ops EXCEPT ![file.id] =
                         [phase |-> IF conv THEN "converting" ELSE "transcribing",
                          user |-> currentUser, fileName |-> file.fileName,
                          ownerId |-> file.ownerId, convProgress |-> 0, ticks |-> 0,
                          message |-> EmptyText, invoices |-> invoices,
                          starts |-> ops[file.id].starts + 1,
                          durationSeconds |-> file.durationSeconds]]
    /\ UNCHANGED <<storeVars, textVars, exportVars, clientVars, liveVars, nextId, currentUser, isQueueActive, jobs, pc, submitter, convSubmitted>>

\* Mutant: convertFile resolves at half of the progress.
convertResolvesEarly(progress) == progress >= FullProgress \div 2

\* if (progress >= 100) of the interval callback of convertFile
convertResolves(progress) == progress >= FullProgress

\* One firing of the 150 ms interval of convertFile: progress += 5,
\* onProgress(progress), and clearInterval and resolve() once progress >= 100.
ConvertTick(id) ==
    /\ pc = Idle
    /\ ops[id].phase = "converting"
    /\ LET progress == ops[id].convProgress + ConvertStep
       IN  /\ files' = MapById(files, id, [progress |-> progress])
           /\ IF convertResolves(progress)
              THEN /\ ops' = [ops EXCEPT ![id].convProgress = progress,
                                         ![id].phase = "converted"]
                   /\ pc' = [step |-> "converted", id |-> id]
              ELSE /\ ops' = [ops EXCEPT ![id].convProgress = progress]
                   /\ pc' = pc
    /\ UNCHANGED <<storeVars, textVars, exportVars, clientVars, liveVars, nextId, currentUser, isQueueActive, jobs, submitter, convSubmitted>>

\* Mutant: the catch block of the conversion phase does not return, and the
\* run goes on to the transcription phase.
ConvertRejectNoReturn(id) ==
    /\ pc = Idle
    /\ ops[id].phase = "converting"
    /\ files' = MapById(files, id, [status |-> ERROR, error |-> ConversionFailed])
    /\ ops' = [ops EXCEPT ![id].phase = "convFailed"]
    /\ pc' = [step |-> "ready", id |-> id]
    /\ UNCHANGED <<storeVars, textVars, exportVars, clientVars, liveVars, nextId, currentUser, isQueueActive, jobs, submitter, convSubmitted>>

\* The catch block of the conversion phase: the promise awaited by
\* `await convertFile(...)` is rejected, the item is set to ERROR with
\* "Conversion Failed" and processFile returns.  (The convertFile of
\* conversionService is a simulation that has no reject path; the step stands
\* for a conversion that can fail.)
ConvertReject(id) ==
    /\ pc = Idle
    /\ ops[id].phase = "converting"
    /\ files' = MapById(files, id, [status |-> ERROR, error |-> ConversionFailed])
    /\ ops' = [ops EXCEPT ![id].phase = "convFailed"]
    /\ UNCHANGED <<storeVars, textVars, exportVars, clientVars, liveVars, nextId, currentUser, isQueueActive, jobs, pc, submitter, convSubmitted>>

\* Continuation of `await convertFile`: READY_TO_TRANSCRIBE, progress 0.
ConvertDone ==
    /\ pc.step = "converted"
    /\ files' = MapById(files, pc.id, [status |-> READY_TO_TRANSCRIBE, progress |-> 0])
    /\ pc' = [step |-> "ready", id |-> pc.id]
    /\ UNCHANGED <<storeVars, textVars, exportVars, clientVars, liveVars, ops, nextId, currentUser, isQueueActive, jobs, submitter, convSubmitted>>

\* 2. Transcription Phase, entered after a conversion.
StartTranscribe ==
    /\ pc.step = "ready"
    /\ files' = MapById(files, pc.id, [status |-> TRANSCRIBING, progress |-> 0])
    /\ ops' = [ops EXCEPT ![pc.id].phase = "transcribing", ![pc.id].ticks = 0]
    /\ pc' = Idle
    /\ UNCHANGED <<storeVars, textVars, exportVars, clientVars, liveVars, nextId, currentUser, isQueueActive, jobs, submitter, convSubmitted>>

\* Mutant: the simulated progress is not capped.
tickProgressUncapped(progress, r) == progress + r

\* Mutant: the simulated progress starts again when it reaches the cap.
tickProgressRestart(progress, r) ==
    IF progress + r < TickCap THEN progress + r ELSE 0

\* newProgress of the progressInterval callback
tickProgress(progress, r) ==
    IF progress + r < TickCap THEN progress + r ELSE TickCap

\* One firing of progressInterval (800 ms) while the call is outstanding.
\* The firings are counted, and limited to MaxTicks, where `counted` is set.
ProgressTick(id, r, counted) ==
    /\ pc = Idle
    /\ ops[id].phase = "transcribing"
    /\ counted => ops[id].ticks < MaxTicks
    /\ id \in Ids(files)
    /\ files' = [i \in DOMAIN files |->
                    IF files[i].id = id /\ files[i].status = TRANSCRIBING
                    THEN Patch(files[i], [progress |-> tickProgress(files[i].progress, r)])
                    ELSE files[i]]
    /\ ops' = IF counted THEN [ops EXCEPT ![id].ticks = @ + 1] ELSE ops
    /\ UNCHANGED <<storeVars, textVars, exportVars, clientVars, liveVars, nextId, currentUser, isQueueActive, jobs, pc, submitter, convSubmitted>>

\* transcribeAudioFile resolved: clearInterval, COMPLETED, progress 100.
TranscribeResolve(id, responseText) ==
    /\ pc = Idle
    /\ ops[id].phase = "transcribing"
    /\ LET transcript == transcribeAudioFileResult(responseText)
       IN  /\ files' = MapById(files, id,
                         [status |-> COMPLETED, transcript |-> transcript,
                          progress |-> FullProgress])
           /\ pc' = [step |-> "completed", id |-> id, transcript |-> transcript,
                     responseText |-> responseText]
    /\ ops' = [ops EXCEPT ![id].phase = "resolved"]
    /\ UNCHANGED <<storeVars, textVars, exportVars, clientVars, liveVars, nextId, currentUser, isQueueActive, jobs, submitter, convSubmitted>>

\* invoices.find(i => i.status === 'COMPLETED' && i.data): the position of
\* the first completed invoice that has data, 0 if there is none.
validInvoice(invs) ==
    LET valid == { i \in DOMAIN invs : invs[i].status = "COMPLETED" /\ invs[i].hasData }
    IN  IF valid = {} THEN 0 ELSE CHOOSE i \in valid : \A j \in valid : i <= j

\* file.ownerId || currentUser?.id
targetUserId(op) == IF op.ownerId # Undefined THEN op.ownerId ELSE op.user

\* The conditions under which the auto-export calls generateWordFromTemplate,
\* evaluated on the invoices the callback captured and the stored users.
autoExport(op, stored) ==
    /\ targetUserId(op) \in Users
    /\ targetUserId(op) \in stored
    /\ Len(op.invoices) > 0
    /\ validInvoice(op.invoices) # 0

\* Rest of the try block after COMPLETED: saveJobRecord for the user the
\* callback captured, then the user lookup of the auto-export and the template
\* merge.  An exception of saveJobRecord or getUsers lands in the catch block
\* of the transcription phase; generateWordFromTemplate catches its own and
\* returns false.
AfterCompleted(outcome) ==
    /\ pc.step = "completed"
    /\ outcome \in {"ok", "saveThrows", "lookupThrows", "mergeFails"}
    /\ outcome = "saveThrows" => ops[pc.id].user # Undefined
    /\ outcome = "mergeFails" => autoExport(ops[pc.id], templates)
    /\ LET op == ops[pc.id]
           saved == IF op.user # Undefined /\ outcome # "saveThrows"
                    THEN saveJobRecord(jobs, today, op.user, op.fileName, pc.transcript,
                                       op.durationSeconds, op.ownerId)
                    ELSE jobs
           thrown == outcome \in {"saveThrows", "lookupThrows"}
       IN  /\ jobs' = saved
           /\ files' = IF ~thrown THEN files
                       ELSE MapById(files, pc.id,
                              [status |-> ERROR, error |-> ClassifyError(StorageError)])
           /\ exports' = IF ~thrown /\ autoExport(op, templates)
                         THEN Append(exports,
                                [fileId |-> pc.id, owner |-> targetUserId(op),
                                 invoice |-> validInvoice(op.invoices),
                                 success |-> outcome # "mergeFails"])
                         ELSE exports
    /\ ops' = [ops EXCEPT ![pc.id].phase = "settled"]
    /\ pc' = Idle
    /\ UNCHANGED <<storeVars, textVars, invoices, templates, clientVars, liveVars, nextId, currentUser, isQueueActive, submitter, convSubmitted>>

\* transcribeAudioFile rejected: clearInterval, ERROR with the classified message.
TranscribeReject(id, message) ==
    /\ pc = Idle
    /\ ops[id].phase = "transcribing"
    /\ files' = MapById(files, id,
                  [status |-> ERROR,
                   error |-> ClassifyError(transcribeAudioFileError(message))])
    /\ ops' = [ops EXCEPT ![id].phase = "rejected", ![id].message = message]
    /\ UNCHANGED <<storeVars, textVars, exportVars, clientVars, liveVars, nextId, currentUser, isQueueActive, jobs, pc, submitter, convSubmitted>>

(* ------------------------ invoices and templates ---------------------- *)

\* handleProcessInvoices(files): the images are listed as PROCESSING.
ProcessInvoices(n) ==
    /\ pc = Idle
    /\ currentUser # Undefined
    /\ n >= 1
    /\ Len(invoices) + n <= MaxInvoices
    /\ LET call == 1 + Cardinality({ invoices[i].call : i \in DOMAIN invoices })
       IN  invoices' = invoices \o [i \in 1..n |->
                          [status |-> "PROCESSING", hasData |-> FALSE, call |-> call]]
    /\ UNCHANGED <<storeVars, textVars, batchVars, templates, exports, clientVars, liveVars>>

\* The loop of handleProcessInvoices: extractInvoiceData settles for the next
\* image of a call, with data, with a null result, or with an error.
InvoiceExtracted(i, outcome) ==
    /\ pc = Idle
    /\ i \in DOMAIN invoices
    /\ invoices[i].status = "PROCESSING"
    /\ \A j \in 1..(i - 1) :
          invoices[j].call = invoices[i].call => invoices[j].status # "PROCESSING"
    /\ outcome \in {"data", "null", "error"}
    /\ invoices' = [invoices EXCEPT ![i].status =
                                       IF outcome = "error" THEN "ERROR" ELSE "COMPLETED",
                                   ![i].hasData = (outcome = "data")]
    /\ UNCHANGED <<storeVars, textVars, batchVars, templates, exports, clientVars, liveVars>>

\* handleUploadTemplate: saveUserTemplate(currentUser.id, base64)
UploadTemplate ==
    /\ pc = Idle
    /\ currentUser # Undefined
    /\ templates' = templates \cup {currentUser}
    /\ UNCHANGED <<storeVars, textVars, batchVars, invoices, exports, clientVars, liveVars>>

(* --------------------------- live dictation --------------------------- *)

\* A method call on a field: a TypeError is raised if the field is null and
\* the call is not made through `?.` or under an `if`.
NullCall(ref, guarded) == ~ref /\ ~guarded

\* Mutant: the tracks are stopped without the optional chaining.
disconnectUnguarded(sess) ==
    [sess EXCEPT
       !.closeRequested = @ \/ (sess.promiseRef /\ sess.channel = "opening"),
       !.channel = IF sess.promiseRef /\ sess.channel = "open" THEN "closed" ELSE @,
       !.graphConnected = FALSE,
       !.trackActive = FALSE,
       !.ctxOpen = IF sess.ctxRef THEN FALSE ELSE @,
       !.promiseRef = FALSE,
       !.ctxRef = FALSE,
       !.streamRef = FALSE,
       !.earlyDisconnect = @ \/ sess.step = "awaitMic",
       !.disconnected = TRUE,
       !.threw = @ \/ NullCall(sess.streamRef, FALSE)]

\* disconnect(): sessionPromise.then(s => s.close()), source and processor
\* disconnected, the tracks of audioStream stopped, inputAudioContext closed,
\* and the three fields set to null.
disconnect(sess) ==
    [sess EXCEPT
       !.threw = @ \/ NullCall(sess.promiseRef, TRUE) \/ NullCall(sess.graphRef, TRUE)
                   \/ NullCall(sess.streamRef, TRUE) \/ NullCall(sess.ctxRef, TRUE),
       !.closeRequested = @ \/ (sess.promiseRef /\ sess.channel = "opening"),
       !.channel = IF sess.promiseRef /\ sess.channel = "open" THEN "closed" ELSE @,
       !.graphConnected = FALSE,
       !.trackActive = IF sess.streamRef THEN FALSE ELSE @,
       !.ctxOpen = IF sess.ctxRef THEN FALSE ELSE @,
       !.promiseRef = FALSE,
       !.ctxRef = FALSE,
       !.streamRef = FALSE,
       !.earlyDisconnect = @ \/ sess.step = "awaitMic",
       !.disconnected = TRUE]

\* The state setters of a view instance act only while it is mounted.
Rendered(sess) == view.mounted /\ view.mount = sess.mount

\* The App renders the LiveDictationView: a new component instance.
Mount ==
    /\ ~view.mounted
    /\ view.mount < MaxMounts
    /\ view' = [mounted |-> TRUE, mount |-> view.mount + 1, isActive |-> FALSE,
                error |-> FALSE, sessionRef |-> 0, transcript |-> view.transcript]
    /\ UNCHANGED <<storeVars, textVars, batchVars, exportVars, clientVars, sessions>>

\* The cleanup of the view's effect: sessionRef.current?.disconnect()
Unmount ==
    /\ view.mounted
    /\ view' = [view EXCEPT !.mounted = FALSE]
    /\ sessions' = IF view.sessionRef = 0 THEN sessions
                   ELSE [sessions EXCEPT ![view.sessionRef] = disconnect(@)]
    /\ UNCHANGED <<storeVars, textVars, batchVars, exportVars, clientVars>>

\* toggleSession while inactive: a new session replaces sessionRef.current
\* and connect() runs up to `await getUserMedia`.
ToggleStart ==
    /\ view.mounted
    /\ ~view.isActive
    /\ Len(sessions) < MaxSessions
    /\ sessions' = Append(sessions, newSession(view.mount))
    /\ view' = [view EXCEPT !.error = FALSE, !.sessionRef = Len(sessions) + 1]
    /\ UNCHANGED <<storeVars, textVars, batchVars, exportVars, clientVars>>

\* toggleSession while active: sessionRef.current?.disconnect(), inactive.
ToggleStop ==
    /\ view.mounted
    /\ view.isActive
    /\ sessions' = IF view.sessionRef = 0 THEN sessions
                   ELSE [sessions EXCEPT ![view.sessionRef] = disconnect(@)]
    /\ view' = [view EXCEPT !.isActive = FALSE]
    /\ UNCHANGED <<storeVars, textVars, batchVars, exportVars, clientVars>>

\* getUserMedia resolves: the stream is stored, ai.live.connect is called and
\* not awaited, connect() returns and toggleSession sets the active flag.
MicGranted(s) ==
    /\ s \in DOMAIN sessions
    /\ sessions[s].step = "awaitMic"
    /\ sessions' = [sessions EXCEPT ![s].step = "done",
                                    ![s].streamRef = TRUE,
                                    ![s].trackActive = TRUE,
                                    ![s].promiseRef = TRUE,
                                    ![s].channel = "opening"]
    /\ view' = IF Rendered(sessions[s]) THEN [view EXCEPT !.isActive = TRUE] ELSE view
    /\ UNCHANGED <<storeVars, textVars, batchVars, exportVars, clientVars>>

\* getUserMedia rejects: the catch block of connect() calls onError (error
\* shown, inactive), connect() returns normally and toggleSession sets the
\* active flag.
MicDenied(s) ==
    /\ s \in DOMAIN sessions
    /\ sessions[s].step = "awaitMic"
    /\ sessions' = [sessions EXCEPT ![s].step = "done",
                                    ![s].failed = "mic",
                                    ![s].onErrorCalled = TRUE]
    /\ view' = IF Rendered(sessions[s])
               THEN [view EXCEPT !.error = TRUE, !.isActive = TRUE] ELSE view
    /\ UNCHANGED <<storeVars, textVars, batchVars, exportVars, clientVars>>

\* The channel opens: onopen calls startAudioStreaming, which builds the
\* audio graph unless one of the three fields is null; a close requested by
\* an earlier disconnect() then closes the channel.
ChannelOpened(s) ==
    /\ s \in DOMAIN sessions
    /\ sessions[s].channel = "opening"
    /\ LET sess == sessions[s]
           streaming == sess.ctxRef /\ sess.streamRef /\ sess.promiseRef
       IN  sessions' = [sessions EXCEPT
                          ![s].graphRef = streaming,
                          ![s].graphConnected = streaming,
                          ![s].channel = IF sess.closeRequested THEN "closed" ELSE "open"]
    /\ UNCHANGED <<storeVars, textVars, batchVars, exportVars, clientVars, view>>

\* Mutant: the fragment is handed over as it arrived.
onmessageRaw(text, turnComplete) ==
    (IF text # EmptyText THEN <<[text |-> text, isFinal |-> FALSE]>> ELSE << >>)
    \o (IF turnComplete THEN <<[text |-> EmptyText, isFinal |-> TRUE]>> ELSE << >>)

\* onmessage: the calls of onTranscription made for one message, given the
\* text of serverContent.inputTranscription (empty if absent) and
\* serverContent.turnComplete.
onmessage(text, turnComplete) ==
    (IF text # EmptyText
     THEN <<[text |-> formatDictationText(text), isFinal |-> FALSE]>> ELSE << >>)
    \o (IF turnComplete THEN <<[text |-> EmptyText, isFinal |-> TRUE]>> ELSE << >>)

\* handleUpdateLiveTranscript(text): setLiveTranscript(prev => prev + " " + text)
handleUpdateLiveTranscript(prev, text) == prev \o <<" ">> \o text

RECURSIVE onTranscription(_, _)
\* The callback the view gives the session, for each call in turn:
\* if (text) onTranscriptUpdate(text)
onTranscription(prev, calls) ==
    IF calls = << >> THEN prev
    ELSE onTranscription(IF Head(calls).text # EmptyText
                         THEN handleUpdateLiveTranscript(prev, Head(calls).text)
                         ELSE prev,
                         Tail(calls))

\* A message arrives on the open channel and is handed to onmessage.
ChannelMessage(s, text, turnComplete) ==
    /\ s \in DOMAIN sessions
    /\ sessions[s].channel = "open"
    /\ Len(sessions[s].received) + Len(sessions[s].inFlight) < MaxMessages
    /\ sessions' = [sessions EXCEPT
                      ![s].received = Append(@, [text |-> text, turnComplete |-> turnComplete]),
                      ![s].delivered = @ \o onmessage(text, turnComplete)]
    /\ view' = [view EXCEPT !.transcript = onTranscription(@, onmessage(text, turnComplete))]
    /\ UNCHANGED <<storeVars, textVars, batchVars, exportVars, clientVars>>

\* The library takes a message from the open channel; its handler reads the
\* payload before it calls onmessage.
ChannelReceive(s, text, turnComplete) ==
    /\ s \in DOMAIN sessions
    /\ sessions[s].channel = "open"
    /\ Len(sessions[s].received) + Len(sessions[s].inFlight) < MaxMessages
    /\ sessions' = [sessions EXCEPT
                      ![s].inFlight = Append(@, [text |-> text, turnComplete |-> turnComplete])]
    /\ UNCHANGED <<storeVars, textVars, batchVars, exportVars, clientVars, view>>

\* The library hands the oldest message it holds to onmessage, which looks at
\* no field of the session.
ChannelDispatch(s) ==
    /\ s \in DOMAIN sessions
    /\ sessions[s].inFlight # << >>
    /\ LET message == Head(sessions[s].inFlight)
           calls == onmessage(message.text, message.turnComplete)
       IN  /\ sessions' = [sessions EXCEPT
                             ![s].inFlight = Tail(@),
                             ![s].received = Append(@, message),
                             ![s].delivered = @ \o calls]
           /\ view' = [view EXCEPT !.transcript = onTranscription(@, calls)]
    /\ UNCHANGED <<storeVars, textVars, batchVars, exportVars, clientVars>>

\* onaudioprocess of the processor node: the frame is sent through
\* this.sessionPromise?.then(...), that is, only while sessionPromise is set.
\* A callback that was already queued may run after the graph is disconnected.
AudioProcess(s) ==
    /\ s \in DOMAIN sessions
    /\ sessions[s].graphRef
    /\ sessions[s].sent < MaxFrames
    /\ sessions[s].promiseRef /\ sessions[s].channel = "open"
    /\ sessions' = [sessions EXCEPT ![s].sent = @ + 1]
    /\ UNCHANGED <<storeVars, textVars, batchVars, exportVars, clientVars, view>>

\* The channel fails to open: nothing in connect() awaits or catches the
\* promise; the library may or may not report it through the onerror callback.
ChannelOpenFailed(s, notified) ==
    /\ s \in DOMAIN sessions
    /\ sessions[s].channel = "opening"
    /\ sessions' = [sessions EXCEPT ![s].channel = "failed",
                                    ![s].failed = "channel",
                                    ![s].onErrorCalled = @ \/ notified]
    /\ view' = IF notified /\ Rendered(sessions[s])
               THEN [view EXCEPT !.error = TRUE, !.isActive = FALSE] ELSE view
    /\ UNCHANGED <<storeVars, textVars, batchVars, exportVars, clientVars>>

\* The open channel reports an error: onerror calls onError.
ChannelError(s) ==
    /\ s \in DOMAIN sessions
    /\ sessions[s].channel = "open"
    /\ sessions' = [sessions EXCEPT ![s].channel = "failed",
                                    ![s].errored = TRUE,
                                    ![s].onErrorCalled = TRUE]
    /\ view' = IF Rendered(sessions[s])
               THEN [view EXCEPT !.error = TRUE, !.isActive = FALSE] ELSE view
    /\ UNCHANGED <<storeVars, textVars, batchVars, exportVars, clientVars>>

(* ------------------------- transcribeAudioFile ------------------------ *)

\* `await fileToBase64(file)` settles; on success the size check follows and,
\* if it passes, the request to the remote service is sent.
ClientFileRead(ok) ==
    /\ client.step = "reading"
    /\ client' =
          IF ~ok
          THEN [client EXCEPT !.step = "threw", !.cause = "read",
                              !.message = transcribeAudioFileError(EmptyText)]
          ELSE IF tooLarge(client.size)
          THEN [client EXCEPT !.step = "threw", !.cause = "size", !.raw = TooLarge,
                              !.message = transcribeAudioFileError(TooLarge)]
          ELSE [client EXCEPT !.step = "calling", !.remoteCalls = @ + 1]
    /\ UNCHANGED <<storeVars, textVars, batchVars, exportVars, liveVars>>

\* generateContent resolves.
ClientResponse(responseText) ==
    /\ client.step = "calling"
    /\ client' = [client EXCEPT !.step = "returned",
                                !.result = transcribeAudioFileResult(responseText)]
    /\ UNCHANGED <<storeVars, textVars, batchVars, exportVars, liveVars>>

\* generateContent rejects.
ClientFailure(message) ==
    /\ client.step = "calling"
    /\ client' = [client EXCEPT !.step = "threw", !.cause = "service",
                                !.raw = message,
                                !.message = transcribeAudioFileError(message)]
    /\ UNCHANGED <<storeVars, textVars, batchVars, exportVars, liveVars>>

\* The catch block of processFile receives the error thrown by the call.
ClientCaught ==
    /\ client.step = "threw"
    /\ client' = [client EXCEPT !.step = "shown",
                                !.itemError = ClassifyError(client.message)]
    /\ UNCHANGED <<storeVars, textVars, batchVars, exportVars, liveVars>>

(* --------------------------- specification ---------------------------- *)

Next ==
    \/ \E u \in Users : Login(u)
    \/ Logout
    \/ \E b \in Batches, d \in Doctors \cup {Undefined} :
          FilesAdded(b, d, MaxFiles, MaxConv)
    \/ \E id \in FileIds : RemoveFile(id)
    \/ QueueMonitor
    \/ \E id \in FileIds : ConvertTick(id)
    \/ ConvertDone
    \/ StartTranscribe
    \/ \E id \in FileIds, r \in TickIncrements : ProgressTick(id, r, TRUE)
    \/ \E id \in FileIds, t \in ServiceTexts : TranscribeResolve(id, t)
    \/ \E o \in {"ok", "saveThrows", "lookupThrows"} : AfterCompleted(o)
    \/ \E id \in FileIds, m \in ServiceErrors : TranscribeReject(id, m)

Spec == Init /\ [][Next]_vars

\* The queue filled beyond its slots by one user; every call settles with
\* the same text or the same message and the job store does not fail.
QueueText == <<"o", "k">>
QueueError == <<"q", "u", "o", "t", "a">>

NextQueue ==
    \/ Login(DoctorId)
    \/ \E b \in Batches : FilesAdded(b, Undefined, MaxQueueFiles, MaxQueueConv)
    \/ \E id \in FileIds : RemoveFile(id)
    \/ QueueMonitor
    \/ \E id \in FileIds : ConvertTick(id)
    \/ ConvertDone
    \/ StartTranscribe
    \/ \E id \in FileIds : TranscribeResolve(id, QueueText)
    \/ AfterCompleted("ok")
    \/ \E id \in FileIds : TranscribeReject(id, QueueError)

SpecQueue == Init /\ [][NextQueue]_vars

\* Audio files that need no conversion, invoice images and templates.
NextExport ==
    \/ \E u \in Users : Login(u)
    \/ UploadTemplate
    \/ \E n \in 1..MaxInvoices : ProcessInvoices(n)
    \/ \E i \in 1..MaxInvoices, o \in {"data", "null", "error"} : InvoiceExtracted(i, o)
    \/ \E b \in Batches, d \in Doctors \cup {Undefined} :
          FilesAdded(b, d, MaxExportFiles, 0)
    \/ QueueMonitor
    \/ \E id \in FileIds : TranscribeResolve(id, QueueText)
    \/ \E o \in {"ok", "saveThrows", "lookupThrows", "mergeFails"} : AfterCompleted(o)
    \/ \E id \in FileIds : TranscribeReject(id, QueueError)

SpecExport == Init /\ [][NextExport]_vars

NextClient ==
    \/ \E ok \in BOOLEAN : ClientFileRead(ok)
    \/ \E t \in ServiceTexts : ClientResponse(t)
    \/ \E m \in ClientErrors : ClientFailure(m)
    \/ ClientCaught

SpecClient == InitClient /\ [][NextClient]_vars

NextLive ==
    \/ Mount
    \/ Unmount
    \/ ToggleStart
    \/ ToggleStop
    \/ \E s \in 1..MaxSessions : MicGranted(s)
    \/ \E s \in 1..MaxSessions : MicDenied(s)
    \/ \E s \in 1..MaxSessions : ChannelOpened(s)
    \/ \E s \in 1..MaxSessions, notified \in BOOLEAN : ChannelOpenFailed(s, notified)
    \/ \E s \in 1..MaxSessions : ChannelError(s)

SpecLive == Init /\ [][NextLive]_vars

\* Sessions of one mounted view that connect, receive messages and are stopped.
NextLiveStream ==
    \/ Mount
    \/ ToggleStart
    \/ ToggleStop
    \/ \E s \in 1..MaxSessions : MicGranted(s)
    \/ \E s \in 1..MaxSessions : ChannelOpened(s)
    \/ \E s \in 1..MaxSessions, text \in LiveTexts, turnComplete \in BOOLEAN :
          ChannelMessage(s, text, turnComplete)

SpecLiveStream == Init /\ [][NextLiveStream]_vars

\* formatDictationText(text) is called with the given text.
NormalizeOnce ==
    /\ norm.step = "input"
    /\ norm' = [norm EXCEPT !.step = "once", !.once = formatDictationText(norm.input)]
    /\ UNCHANGED <<batchVars, exportVars, clientVars, liveVars, storeVars>>

\* formatDictationText is called again with the text it returned.
NormalizeTwice ==
    /\ norm.step = "once"
    /\ norm' = [norm EXCEPT !.step = "twice", !.twice = formatDictationText(norm.once)]
    /\ UNCHANGED <<batchVars, exportVars, clientVars, liveVars, storeVars>>

\* The dictation formatter on its own, applied to a text and to its result.
NextNormalizer ==
    \/ NormalizeOnce
    \/ NormalizeTwice

SpecNormalizer == InitNormalizer /\ [][NextNormalizer]_vars

\* The dictation formatter applied to texts that hold a spoken command.
SpecCommands == InitCommands /\ [][NextNormalizer]_vars

\* Single files of every kind of name are submitted and processed.
NextRouting ==
    \/ Login(DoctorId)
    \/ \E name \in RoutingNames :
          FilesAdded(<<name>>, Undefined, MaxRoutingFiles, MaxRoutingConv)
    \/ QueueMonitor
    \/ \E id \in FileIds : ConvertTick(id)
    \/ ConvertDone
    \/ StartTranscribe
    \/ \E id \in FileIds : TranscribeResolve(id, QueueText)
    \/ AfterCompleted("ok")
    \/ \E id \in FileIds : TranscribeReject(id, QueueError)

SpecRouting == Init /\ [][NextRouting]_vars

\* The routing runs with a conversion that can fail.
NextConvertFail ==
    \/ Login(DoctorId)
    \/ \E name \in RoutingNames :
          FilesAdded(<<name>>, Undefined, MaxRoutingFiles, MaxRoutingConv)
    \/ QueueMonitor
    \/ \E id \in FileIds : ConvertTick(id)
    \/ \E id \in FileIds : ConvertReject(id)
    \/ ConvertDone
    \/ StartTranscribe
    \/ \E id \in FileIds : TranscribeResolve(id, QueueText)
    \/ AfterCompleted("ok")
    \/ \E id \in FileIds : TranscribeReject(id, QueueError)

SpecConvertFail == Init /\ [][NextConvertFail]_vars

\* Files whose duration lookup resolves before or after they are started.
NextDuration ==
    \/ Login(DoctorId)
    \/ \E b \in Batches : FilesAdded(b, Undefined, MaxFiles, 0)
    \/ \E id \in FileIds, d \in Durations : DurationResolved(id, d)
    \/ QueueMonitor
    \/ \E id \in FileIds : TranscribeResolve(id, QueueText)
    \/ AfterCompleted("ok")
    \/ \E id \in FileIds : TranscribeReject(id, QueueError)

SpecDuration == Init /\ [][NextDuration]_vars

\* The dictation formatter applied to texts of blanks, punctuation and words.
SpecSpacing == InitSpacing /\ [][NextNormalizer]_vars

\* The job store on its own: jobs are saved, assigned and finalized while the
\* days pass.
NextJobs ==
    \/ \E transcript \in JobTexts : SaveJob(DoctorId, <<"a", ".", "m", "p", "3">>, transcript)
    \/ \E jobId \in 1..MaxJobs, typistId \in Typists : AssignJob(jobId, typistId)
    \/ \E jobId \in 1..MaxJobs, finalText \in FinalTexts : FinalizeJob(jobId, finalText)
    \/ NextDay

SpecJobs == Init /\ [][NextJobs]_vars

\* Jobs are saved and finalized, and the learning context is read in between.
NextLearning ==
    \/ \E transcript \in JobTexts : SaveJob(DoctorId, <<"a", ".", "m", "p", "3">>, transcript)
    \/ \E jobId \in 1..MaxJobs, finalText \in FinalTexts : FinalizeJob(jobId, finalText)
    \/ GetLearningContext

SpecLearning == Init /\ [][NextLearning]_vars

\* Sessions whose messages are handed over by the library some time after
\* they were taken from the channel, and whose audio callbacks fire.
NextLiveLate ==
    \/ Mount
    \/ ToggleStart
    \/ ToggleStop
    \/ \E s \in 1..MaxSessions : MicGranted(s)
    \/ \E s \in 1..MaxSessions : ChannelOpened(s)
    \/ \E s \in 1..MaxSessions, turnComplete \in BOOLEAN :
          ChannelReceive(s, <<"u", "m", " ", "o", "k">>, turnComplete)
    \/ \E s \in 1..MaxSessions : ChannelDispatch(s)
    \/ \E s \in 1..MaxSessions : AudioProcess(s)

SpecLiveLate == Init /\ [][NextLiveLate]_vars

\* One user, few files, and the progress interval firing for as long as the
\* call is outstanding.
NextProgress ==
    \/ Login(DoctorId)
    \/ \E b \in Batches : FilesAdded(b, Undefined, MaxProgressFiles, MaxProgressConv)
    \/ QueueMonitor
    \/ \E id \in FileIds : ConvertTick(id)
    \/ ConvertDone
    \/ StartTranscribe
    \/ \E id \in FileIds, r \in TickIncrements : ProgressTick(id, r, FALSE)
    \/ \E id \in FileIds : TranscribeResolve(id, QueueText)
    \/ \E o \in {"ok", "saveThrows", "lookupThrows"} : AfterCompleted(o)
    \/ \E id \in FileIds : TranscribeReject(id, QueueError)

SpecProgress == Init /\ [][NextProgress]_vars

\* The effect runs after every render that changed its dependencies, a
\* continuation of processFile runs once the promise it awaits has settled,
\* the interval of convertFile keeps firing, and every transcription call that
\* was started settles.  The user's commands are under no obligation.
QueueFairness ==
    /\ WF_vars(QueueMonitor)
    /\ WF_vars(ConvertDone)
    /\ WF_vars(StartTranscribe)
    /\ WF_vars(AfterCompleted("ok"))
    /\ \A id \in 1..MaxQueueFiles :
          /\ WF_vars(ConvertTick(id))
          /\ WF_vars(TranscribeResolve(id, QueueText) \/ TranscribeReject(id, QueueError))

\* The queue without removals: the items whose progress is followed stay in
\* the list.
NextQueueFair ==
    \/ Login(DoctorId)
    \/ \E b \in Batches : FilesAdded(b, Undefined, MaxQueueFiles, MaxQueueConv)
    \/ QueueMonitor
    \/ \E id \in FileIds : ConvertTick(id)
    \/ ConvertDone
    \/ StartTranscribe
    \/ \E id \in FileIds : TranscribeResolve(id, QueueText)
    \/ AfterCompleted("ok")
    \/ \E id \in FileIds : TranscribeReject(id, QueueError)

SpecQueueFair == Init /\ [][NextQueueFair]_vars /\ QueueFairness

(* ------------------------------ properties ---------------------------- *)

\* Positions of the list whose item occupies a slot.
ActivePositions == { i \in DOMAIN files : files[i].status \in {CONVERTING, TRANSCRIBING} }

\* Ids whose conversion run or transcription call has started and not settled.
Outstanding == { id \in FileIds : ops[id].phase \in {"converting", "transcribing"} }

\* Ids that were submitted and are no longer in the list.
Removed == { id \in FileIds : id < nextId /\ id \notin Ids(files) }

\* The step is made by a callback or continuation of the processFile run of id.
StepOf(id) == ops'[id] # ops[id] \/ (pc.step # "idle" /\ pc.id = id)

\* C1: in every reachable state at most MAX_CONCURRENT_UPLOADS = 3 items of
\* the list have status CONVERTING or TRANSCRIBING.
C1_ConcurrencyBound == Cardinality(ActivePositions) <= 3

\* C1 witness: more than three items were submitted, three hold a slot, one of
\* them in conversion, and a QUEUED item waits.
C1_Witness ==
    /\ Cardinality(ActivePositions) = 3
    /\ \E i \in DOMAIN files : files[i].status = CONVERTING
    /\ \E i \in DOMAIN files : files[i].status = QUEUED

\* C2 as claimed: the number of outstanding conversion runs and transcription
\* calls never exceeds 3, the operations of removed items included.
C2_OutstandingBound == Cardinality(Outstanding) <= 3

\* C2 as amended: the outstanding operations of the items that are still in
\* the list never exceed 3; the operation of an item removed in flight keeps
\* running and is not counted.
C2_ListedOutstandingBound == Cardinality(Outstanding \cap Ids(files)) <= 3

\* C2 witness: three listed items have an outstanding operation while the
\* operation of a removed item is outstanding too.
C2_Witness ==
    /\ Cardinality(Outstanding \cap Ids(files)) = 3
    /\ Outstanding \cap Removed # {}

\* C3: if A stands before B in the list and both are QUEUED, no step moves B
\* out of QUEUED while A stays QUEUED in the list; so of two items that need no
\* conversion the earlier enters TRANSCRIBING no later than the later one.
C3_StartOrder ==
    [][\A a, b \in DOMAIN files :
          ( /\ a < b
            /\ files[a].status = QUEUED
            /\ files[b].status = QUEUED
            /\ files[b].id \in Ids(files')
            /\ Item(files', files[b].id).status # QUEUED )
          => ( \/ files[a].id \notin Ids(files')
               \/ Item(files', files[a].id).status # QUEUED )]_vars

\* C3 witness: with a slot free, the earlier of two items submitted together
\* has been started and the later one is still QUEUED.
C3_Witness ==
    \E a, b \in DOMAIN files :
        /\ a < b
        /\ files[a].status = TRANSCRIBING
        /\ files[b].status = QUEUED
        /\ Cardinality(ActivePositions) < 3

\* C4 as claimed: an item that is COMPLETED or ERROR keeps that status in
\* every later step for as long as it is in the list.
C4_TerminalAbsorbing ==
    [][\A i \in DOMAIN files :
          ( /\ files[i].status \in {COMPLETED, ERROR}
            /\ files[i].id \in Ids(files') )
          => Item(files', files[i].id).status = files[i].status]_vars

\* C5 as claimed: for every item of the list the transcript is non-empty
\* exactly if the status is COMPLETED and the error is non-empty exactly if the
\* status is ERROR.
C5_TranscriptAndErrorMatchStatus ==
    \A i \in DOMAIN files :
        /\ (files[i].transcript # EmptyText) <=> (files[i].status = COMPLETED)
        /\ (files[i].error # EmptyText) <=> (files[i].status = ERROR)

\* C6: a step made by the processFile run of an item that was removed from
\* the list leaves the list as it is, and a removed item never comes back.
C6_RemovedInFlightNoOp ==
    [][\A id \in Removed :
          /\ id \notin Ids(files')
          /\ StepOf(id) => files' = files]_vars

\* C6 witness: the call of a removed item has resolved or rejected while
\* other items are in the list.
C6_Witness ==
    \E id \in Removed :
        /\ ops[id].phase \in {"settled", "rejected"}
        /\ files # << >>

ExpectedOwner(id) ==
    IF ops[id].ownerId # Undefined THEN ops[id].ownerId ELSE submitter[id]

\* C8 as claimed: the step that follows a successful transcription stores
\* exactly one JobRecord, owned by the item's explicit owner if one was set
\* and by the submitting user otherwise.
C8_OneJobForOwner ==
    [][pc.step = "completed" =>
          /\ Len(jobs') = Len(jobs) + 1
          /\ SubSeq(jobs', 1, Len(jobs)) = jobs
          /\ jobs'[Len(jobs')].userId = ExpectedOwner(pc.id)]_vars

\* Message an item shows for a rejected call with the given message.
ShownError(message) ==
    IF Includes(message, <<"4", "0", "1">>) \/ Includes(message, Unauthenticated)
    THEN ApiKeyInvalid
    ELSE IF message = << >> THEN FailedToTranscribe ELSE message

\* C9: the step in which the transcription call of a listed item fails sets
\* the item's status to ERROR and its error to the classified message, leaves
\* its transcript empty and leaves the stored jobs unchanged.
C9_FailureSetsError ==
    [][\A id \in Ids(files) :
          (ops[id].phase = "transcribing" /\ ops'[id].phase = "rejected") =>
              /\ id \in Ids(files')
              /\ Item(files', id).status = ERROR
              /\ Item(files', id).error = ShownError(ops'[id].message)
              /\ Item(files', id).transcript = EmptyText
              /\ jobs' = jobs]_vars

\* C9 witness: a call was rejected as unauthenticated and the item shows the
\* classified message.
C9_Witness ==
    \E id \in Ids(files) :
        /\ ops[id].phase = "rejected"
        /\ Includes(ops[id].message, <<"4", "0", "1">>)
        /\ Item(files, id).status = ERROR
        /\ Item(files, id).error = ApiKeyInvalid

\* C10: a step made by the processFile run of item X keeps the list's length
\* and order and leaves every other item of the list unchanged.
C10_PerItemIsolation ==
    [][\A id \in FileIds :
          StepOf(id) =>
              /\ Len(files') = Len(files)
              /\ \A i \in DOMAIN files :
                    /\ files'[i].id = files[i].id
                    /\ files[i].id # id => files'[i] = files[i]]_vars

\* C10 witness: one item has failed while a sibling is TRANSCRIBING with the
\* progress its own ticks gave it.
C10_Witness ==
    \E i, j \in DOMAIN files :
        /\ files[i].status = ERROR
        /\ files[j].status = TRANSCRIBING
        /\ files[j].progress > 0

\* C11: under the fairness of the scheduler effect and of the settling of
\* started operations, every item that is QUEUED in the list and is not
\* removed is eventually COMPLETED or ERROR; and whenever a QUEUED item is
\* present, fewer than 3 items hold a slot and no synchronous segment is
\* running, the scheduler is able to start an item.
C11_QueuedEventuallySettles ==
    /\ [](( /\ pc = Idle
             /\ \E i \in DOMAIN files : files[i].status = QUEUED
             /\ Cardinality(ActivePositions) < 3 )
           => ENABLED QueueMonitor)
    /\ \A id \in 1..MaxQueueFiles :
          (\E i \in DOMAIN files : files[i].id = id /\ files[i].status = QUEUED)
             ~> (\E i \in DOMAIN files :
                    files[i].id = id /\ files[i].status \in {COMPLETED, ERROR})

\* C11 witness: the fourth item has reached COMPLETED after it had to wait for
\* a slot, and a sibling has failed.
C11_Witness ==
    \E i, j \in DOMAIN files :
        /\ files[i].id = 4
        /\ files[i].status = COMPLETED
        /\ files[j].status = ERROR
        /\ Len(files) = 4

\* C12: no step leaves an item TRANSCRIBING with a progress above 90, and a
\* step that takes the progress of a TRANSCRIBING item to 100 makes the item
\* COMPLETED: the simulated ticks never reach 100 while the call is outstanding.
C12_TicksCappedAt90 ==
    [][\A i \in DOMAIN files' :
          /\ files'[i].status = TRANSCRIBING => files'[i].progress <= 90
          /\ ops'[files'[i].id].phase = "transcribing" => files'[i].progress < 100
          /\ \A j \in DOMAIN files :
                ( /\ files[j].id = files'[i].id
                  /\ files[j].status = TRANSCRIBING
                  /\ files'[i].progress = 100 )
                => files'[i].status = COMPLETED]_vars

\* C12 witness: the ticks have taken a TRANSCRIBING item to the cap of 90.
C12_Witness ==
    \E i \in DOMAIN files :
        /\ files[i].status = TRANSCRIBING
        /\ files[i].progress = 90
        /\ ops[files[i].id].phase = "transcribing"

\* C13: in every step the progress of every item stays within 0..100, does
\* not decrease while the item keeps its status, and is 0 when the item enters
\* CONVERTING or TRANSCRIBING.
C13_ProgressMonotoneInPhase ==
    [][\A i \in DOMAIN files' :
          /\ files'[i].progress \in 0..100
          /\ \A j \in DOMAIN files :
                files[j].id = files'[i].id =>
                   /\ files[j].status = files'[i].status
                         => files'[i].progress >= files[j].progress
                   /\ ( /\ files[j].status # files'[i].status
                        /\ files'[i].status \in {CONVERTING, TRANSCRIBING} )
                         => files'[i].progress = 0]_vars

\* C13 witness: an item that went through a whole conversion is TRANSCRIBING
\* and its ticks have raised its progress from 0 again.
C13_Witness ==
    \E i \in DOMAIN files :
        /\ files[i].status = TRANSCRIBING
        /\ ops[files[i].id].convProgress = 100
        /\ files[i].progress \in 1..99

C15_FailureClassification ==
    client.step = "shown" =>
        /\ client.itemError = ShownError(client.raw)
        /\ client.cause = "size" =>
              (client.itemError # ApiKeyInvalid /\ client.itemError = TooLarge)

\* C15 witness: a size-limit failure has been shown on the item.
C15_Witness ==
    /\ client.step = "shown"
    /\ client.cause = "size"
    /\ client.itemError = TooLarge

\* Completed invoice records with extracted data in the App's list.
CompletedInvoices == { i \in DOMAIN invoices : invoices[i].status = "COMPLETED" /\ invoices[i].hasData }

\* C16 as claimed: the step that follows a successful transcription triggers
\* a template merge only if the owning user has a template and exactly one
\* completed invoice record with data exists at that moment.
C16_ExportOnlyWithOneInvoice ==
    [][(pc.step = "completed" /\ exports' # exports) =>
          /\ ExpectedOwner(pc.id) \in templates
          /\ Cardinality(CompletedInvoices) = 1]_vars

\* C17 as claimed: the step that follows a successful transcription, with the
\* job persistence, the user lookup and the auto-export in it, leaves a listed
\* item COMPLETED with its transcript and without an error.
C17_SideEffectsNeverEscalate ==
    [][(pc.step = "completed" /\ pc.id \in Ids(files)) =>
          /\ pc.id \in Ids(files')
          /\ Item(files', pc.id).status = COMPLETED
          /\ Item(files', pc.id).transcript = pc.transcript
          /\ Item(files', pc.id).error = EmptyText]_vars

\* A session holds one of the resources connect() acquires.
HoldsResource(sess) ==
    sess.ctxOpen \/ sess.trackActive \/ sess.channel = "open" \/ sess.graphConnected

\* C18 as claimed: a session whose disconnect() was called while its
\* connect() was pending has, once connect() has finished, no active
\* microphone track, no open channel and no open audio context.
C18_DisconnectWhilePending ==
    \A s \in DOMAIN sessions :
        (sessions[s].earlyDisconnect /\ sessions[s].step = "done") =>
            /\ ~sessions[s].trackActive
            /\ sessions[s].channel # "open"
            /\ ~sessions[s].ctxOpen

\* C19 as claimed: when the connect() of the view's current session has
\* failed, the error callback has been invoked and the view's active flag is
\* false.
C19_FailedConnectInactive ==
    (view.mounted /\ view.sessionRef \in DOMAIN sessions) =>
        LET sess == sessions[view.sessionRef]
        IN  (sess.mount = view.mount /\ sess.step = "done" /\ sess.failed # "none") =>
                /\ sess.onErrorCalled
                /\ ~view.isActive

\* C20 as claimed: once the owning view is unmounted and no acquisition of
\* any session is pending, no session holds an audio context, a microphone
\* track, a channel or an audio graph.
C20_ResourcesReleased ==
    ( /\ ~view.mounted
      /\ \A s \in DOMAIN sessions :
            sessions[s].step = "done" /\ sessions[s].channel # "opening" )
    => \A s \in DOMAIN sessions : ~HoldsResource(sessions[s])

\* C21 as claimed: at most one session holds an audio context, a microphone
\* track, a channel or an audio graph, and no step creates a session while an
\* earlier session still holds one of them.
C21_OneSessionHoldsResources ==
    [][/\ Cardinality({ s \in DOMAIN sessions' : HoldsResource(sessions'[s]) }) <= 1
       /\ Len(sessions') > Len(sessions) =>
             \A s \in DOMAIN sessions : ~HoldsResource(sessions[s])]_vars

\* C22: in every state a session can be in (fields never set, connect()
\* pending, connect() failed, streaming, already disconnected) disconnect()
\* raises no exception and a second call leaves the session as the first call
\* left it.
C22_DisconnectIdempotent ==
    /\ ~disconnect(constructedSession(1)).threw
    /\ disconnect(disconnect(constructedSession(1))) = disconnect(constructedSession(1))
    /\ \A s \in DOMAIN sessions :
          /\ ~sessions[s].threw
          /\ ~disconnect(sessions[s]).threw
          /\ ~disconnect(disconnect(sessions[s])).threw
          /\ disconnect(disconnect(sessions[s])) = disconnect(sessions[s])

\* C22 witness: a session that was streaming has been disconnected, and a
\* session whose connect() failed has been disconnected too.
C22_Witness ==
    \E s, t \in DOMAIN sessions :
        /\ sessions[s].graphRef
        /\ sessions[s].channel = "closed"
        /\ ~HoldsResource(sessions[s])
        /\ sessions[t].failed = "mic"
        /\ ~sessions[t].ctxRef

RECURSIVE ExpectedDeliveries(_)
\* What the caller is to be given for a sequence of messages: for each message
\* in order the normalized fragment if its text is not empty, then the final
\* marker if the turn is complete.
ExpectedDeliveries(msgs) ==
    IF msgs = << >> THEN << >>
    ELSE LET m == Head(msgs)
             fragment == IF m.text = << >> THEN << >>
                         ELSE <<[text |-> formatDictationText(m.text), isFinal |-> FALSE]>>
             final == IF m.turnComplete THEN <<[text |-> << >>, isFinal |-> TRUE]>>
                      ELSE << >>
         IN  fragment \o final \o ExpectedDeliveries(Tail(msgs))

\* C23: what a session has handed to onTranscription is, in order, one
\* normalized fragment for every received message with non-empty text and one
\* final marker for every turn-complete signal, the fragment of a message
\* before its final marker.
C23_FragmentsDeliveredInOrder ==
    \A s \in DOMAIN sessions :
        sessions[s].delivered = ExpectedDeliveries(sessions[s].received)

\* C23 witness: a message that carried both a fragment the normalizer changes
\* and the turn-complete signal was received after another message.
C23_Witness ==
    \E s \in DOMAIN sessions :
        /\ Len(sessions[s].received) = 2
        /\ sessions[s].received[2].turnComplete
        /\ sessions[s].received[2].text = <<"u", "m", " ", "o", "k">>
        /\ Len(sessions[s].delivered) >= 2

\* C24: no step changes the original transcript of a stored job, and a job
\* that has just been created has its final transcript equal to its original
\* transcript and the status PENDING.
C24_OriginalTranscriptImmutable ==
    [][/\ \A i \in DOMAIN jobs :
             /\ i \in DOMAIN jobs'
             /\ jobs'[i].originalTranscript = jobs[i].originalTranscript
       /\ \A i \in DOMAIN jobs' \ DOMAIN jobs :
             /\ jobs'[i].finalTranscript = jobs'[i].originalTranscript
             /\ jobs'[i].status = "PENDING"]_vars

\* C24 witness: a job has been assigned and then finalized with a text other
\* than its transcript.
C24_Witness ==
    \E i \in DOMAIN jobs :
       /\ jobs[i].status = "FINALIZED"
       /\ jobs[i].assignedTypistId # Undefined
       /\ jobs[i].finalTranscript # jobs[i].originalTranscript
       /\ jobs[i].originalTranscript \in JobTexts

\* C25 as claimed: a job whose status is FINALIZED keeps that status in every
\* later step, whatever assignJob and finalizeJob calls follow.
C25_FinalizeFreezesStatus ==
    [][\A i \in DOMAIN jobs :
          jobs[i].status = "FINALIZED" =>
             /\ i \in DOMAIN jobs'
             /\ jobs'[i].status = "FINALIZED"]_vars

\* The store after finalizeJob(jobId, finalText) is called on the stored jobs
\* and learning entries, and after it is called once more on the result.
FinalizedOnce(jobId, finalText) == finalizeJob(jobs, learning, jobId, finalText)

FinalizedTwice(jobId, finalText) ==
    finalizeJob(FinalizedOnce(jobId, finalText).jobs,
                FinalizedOnce(jobId, finalText).learning, jobId, finalText)

\* C26 as claimed: for every stored job and every text, a second
\* finalizeJob(jobId, text) call after a first one with the same text stores
\* no further learning entry and leaves the final transcript and the status
\* of the job as the first call left them.
C26_FinalizeIdempotent ==
    \A i \in DOMAIN jobs, finalText \in FinalTexts :
       /\ FinalizedTwice(jobs[i].id, finalText).learning
             = FinalizedOnce(jobs[i].id, finalText).learning
       /\ FinalizedTwice(jobs[i].id, finalText).jobs[i].finalTranscript
             = FinalizedOnce(jobs[i].id, finalText).jobs[i].finalTranscript
       /\ FinalizedTwice(jobs[i].id, finalText).jobs[i].status
             = FinalizedOnce(jobs[i].id, finalText).jobs[i].status

\* C27: a step that is one finalizeJob(jobId, text) call on a stored job sets
\* the status to FINALIZED and the final transcript to the text, appends
\* exactly one learning entry when the text differs from the original
\* transcript and none when it is equal; and no step at all changes or removes
\* a learning entry that is already stored.
C27_FinalizeOnce ==
    [][/\ Len(learning') >= Len(learning)
       /\ SubSeq(learning', 1, Len(learning)) = learning
       /\ \A i \in DOMAIN jobs, finalText \in FinalTexts :
             FinalizeJob(jobs[i].id, finalText) =>
                /\ jobs'[i].status = "FINALIZED"
                /\ jobs'[i].finalTranscript = finalText
                /\ finalText # jobs[i].originalTranscript =>
                      Len(learning') = Len(learning) + 1
                /\ finalText = jobs[i].originalTranscript => learning' = learning]_vars

\* C27 witness: one job has been finalized with a corrected text and another
\* with its own transcript, and exactly one learning entry is stored.
C27_Witness ==
    /\ Len(learning) = 1
    /\ \E i \in DOMAIN jobs :
          /\ jobs[i].status = "FINALIZED"
          /\ jobs[i].finalTranscript # jobs[i].originalTranscript
    /\ \E j \in DOMAIN jobs :
          /\ jobs[j].status = "FINALIZED"
          /\ jobs[j].finalTranscript = jobs[j].originalTranscript

\* The hint lines of the entries from position first to the last one, joined
\* by line breaks.
RECURSIVE HintLinesFrom(_, _)
HintLinesFrom(entries, first) ==
    IF first > Len(entries) THEN EmptyText
    ELSE NotePrefix \o substring(entries[first].correctedSnippet, 50) \o NoteSuffix
         \o (IF first < Len(entries) THEN <<"\n">> ELSE EmptyText)
         \o HintLinesFrom(entries, first + 1)

\* The hint made of the most recent min(5, n) of n entries, in stored order.
ExpectedHint(entries) ==
    ContextHeader
    \o HintLinesFrom(entries, IF Len(entries) > 5 THEN Len(entries) - 4 ELSE 1)
    \o ContextFooter

\* C28: the learning context is the empty string exactly when no learning
\* entry is stored, and a context read while entries are stored is the hint
\* made of the most recent min(5, n) entries in stored order and of nothing
\* else.
C28_LearningContextMostRecent ==
    [][/\ (getLearningContext(learning) = EmptyText) <=> (Len(learning) = 0)
       /\ GetLearningContext =>
             /\ (hint' = EmptyText) <=> (Len(learning) = 0)
             /\ Len(learning) > 0 => hint' = ExpectedHint(learning)]_vars

\* C28 witness: six entries are stored, the oldest differs from the newest, an
\* entry of the last five is longer than a hint line keeps, and the context
\* has been read.
C28_Witness ==
    /\ Len(learning) = 6
    /\ learning[1].correctedSnippet # learning[6].correctedSnippet
    /\ \E i \in 2..6 : Len(learning[i].correctedSnippet) > 50
    /\ hint = getLearningContext(learning)

\* The job number with sequence number k (below ten) on a date.
ExpectedJobNumber(day, k) == JobPrefix \o Dates[day] \o <<"-", "0", "0", Digit(k)>>

\* Position of a stored job among the stored jobs created on the same day.
RankOnDay(store, i) ==
    Cardinality({ j \in 1..i : store[j].uploadDate = store[i].uploadDate })

\* C29: no step removes a stored job or changes its job number; the k-th job
\* created on a date carries sequence number k of that date; and no two stored
\* jobs share a job number.
C29_JobNumbersDateScoped ==
    [][/\ \A i \in DOMAIN jobs :
             /\ i \in DOMAIN jobs'
             /\ jobs'[i].id = jobs[i].id
             /\ jobs'[i].jobNumber = jobs[i].jobNumber
       /\ \A i \in DOMAIN jobs' :
             jobs'[i].jobNumber = ExpectedJobNumber(jobs'[i].uploadDate, RankOnDay(jobs', i))
       /\ \A i, j \in DOMAIN jobs' :
             i # j => jobs'[i].jobNumber # jobs'[j].jobNumber]_vars

\* C29 witness: two jobs created on different days, each the first of its day.
C29_Witness ==
    /\ Len(jobs) = 2
    /\ jobs[1].uploadDate # jobs[2].uploadDate
    /\ jobs[1].jobNumber = ExpectedJobNumber(1, 1)
    /\ jobs[2].jobNumber = ExpectedJobNumber(2, 1)

\* C30 as claimed: for every text, the formatter applied to its own result
\* returns that result.
C30_NormalizerIdempotent ==
    norm.step = "twice" => norm.twice = norm.once

\* C31 as claimed: a command of the table that occurs as whole words, in any
\* letter case, alone or between other words, is replaced by the punctuation
\* or whitespace of its own table entry (the result then has its blanks
\* cleaned up), whatever the other entries of the table are.
C31_CommandReplacedByOwnEntry ==
    \A k \in DOMAIN commands, case \in LetterCases, context \in Contexts :
       (norm.step # "input" /\ norm.input = InContext(Cased(commands[k].key, case), context))
          => norm.once = Cleanup(InContext(commands[k].value, context))

\* C32: the values convertFile reports for an item only grow, by steps of
\* their own, never exceed 100 and are reported only while the conversion has
\* not resolved; the conversion resolves in the step that reports 100 and in
\* no other; and, the interval firing on, every conversion that was started
\* resolves.
C32_ConvertProgress ==
    /\ [][\A id \in FileIds :
            /\ ops'[id].convProgress # ops[id].convProgress =>
                  /\ ops[id].phase = "converting"
                  /\ ops'[id].convProgress > ops[id].convProgress
                  /\ ops'[id].convProgress <= 100
            /\ (ops[id].phase = "converting" /\ ops'[id].phase # "converting") =>
                  /\ ops'[id].convProgress = 100
                  /\ ops[id].convProgress < 100
            /\ (ops[id].phase = "converting" /\ ops'[id].convProgress = 100) =>
                  ops'[id].phase = "converted"]_vars
    /\ \A id \in 1..MaxQueueFiles :
          (ops[id].phase = "converting") ~> (ops[id].phase # "converting")

\* C32 witness: a conversion has reported 100 and resolved, and its item is
\* READY_TO_TRANSCRIBE.
C32_Witness ==
    \E i \in DOMAIN files :
        /\ files[i].status = READY_TO_TRANSCRIBE
        /\ ops[files[i].id].convProgress = FullProgress
        /\ ops[files[i].id].phase = "converted"

\* The names of RoutingNames that end, in some letter case, with .dss, .ds2 or
\* .waptt.
DictationDeviceNames == { <<"b", ".", "D", "S", "S">>, <<"c", ".", "d", "s", "2">>, <<"d", ".", "W", "a", "p", "t", "t">> }

\* C33: an item has status CONVERTING or READY_TO_TRANSCRIBE only if its name
\* ends with a dictation-device extension; an item with such a name leaves
\* QUEUED for CONVERTING and enters TRANSCRIBING from READY_TO_TRANSCRIBE;
\* every other item leaves QUEUED for TRANSCRIBING.
C33_RoutingByFileName ==
    [][\A i \in DOMAIN files' :
          /\ files'[i].status \in {CONVERTING, READY_TO_TRANSCRIBE}
                => files'[i].fileName \in DictationDeviceNames
          /\ \A j \in DOMAIN files :
                files[j].id = files'[i].id =>
                   /\ (files[j].status = QUEUED /\ files'[i].status # QUEUED) =>
                         files'[i].status =
                            IF files[j].fileName \in DictationDeviceNames
                            THEN CONVERTING ELSE TRANSCRIBING
                   /\ (files[j].status # TRANSCRIBING /\ files'[i].status = TRANSCRIBING) =>
                         files[j].status =
                            IF files[j].fileName \in DictationDeviceNames
                            THEN READY_TO_TRANSCRIBE ELSE QUEUED
                   /\ (files[j].status = CONVERTING /\ files'[i].status # CONVERTING) =>
                         files'[i].status = READY_TO_TRANSCRIBE]_vars

\* C33 witness: an item named with an upper-case device extension is
\* TRANSCRIBING after its conversion, next to an item that only contains
\* "dss" in its name and is TRANSCRIBING without one.
C33_Witness ==
    \E i, j \in DOMAIN files :
        /\ files[i].fileName = <<"b", ".", "D", "S", "S">>
        /\ files[i].status = TRANSCRIBING
        /\ ops[files[i].id].convProgress = FullProgress
        /\ files[j].fileName = <<"e", ".", "d", "s", "s", ".", "m", "p", "3">>
        /\ files[j].status = TRANSCRIBING
        /\ ops[files[j].id].convProgress = 0

\* C34: the step in which the conversion of an item fails sets the item to
\* ERROR with the error "Conversion Failed"; from then on the run of that item
\* makes no further step (no transcription call is started for it and the
\* scheduler does not start it again), and the item keeps status ERROR and
\* that error, so it is never TRANSCRIBING.
C34_ConversionFailure ==
    [][\A id \in FileIds :
          /\ (ops[id].phase = "converting" /\ ops'[id].phase = "convFailed") =>
                \A i \in DOMAIN files' :
                   files'[i].id = id =>
                      /\ files'[i].status = ERROR
                      /\ files'[i].error = ConversionFailed
          /\ ops[id].phase = "convFailed" =>
                /\ ops'[id] = ops[id]
                /\ ~(pc'.step # "idle" /\ pc'.id = id)
                /\ \A i \in DOMAIN files' :
                      files'[i].id = id =>
                         /\ files'[i].status = ERROR
                         /\ files'[i].error = ConversionFailed]_vars

\* C34 witness: the conversion of an item has failed part of the way, the item
\* shows "Conversion Failed", and the scheduler has since started another item.
C34_Witness ==
    \E i, j \in DOMAIN files :
        /\ ops[files[i].id].phase = "convFailed"
        /\ ops[files[i].id].convProgress > 0
        /\ files[i].status = ERROR
        /\ files[i].error = ConversionFailed
        /\ i < j
        /\ files[j].status = TRANSCRIBING

\* C35: processFile is invoked at most once for every item id, whatever
\* submissions, removals, logins, logouts and scheduler runs are interleaved:
\* a conversion is started only for an id that has no run yet, and a
\* transcription call only for an id that has no run yet or whose conversion
\* has just resolved.
C35_AtMostOnceStart ==
    [][\A id \in FileIds :
          /\ ops'[id].starts <= 1
          /\ (ops'[id].phase = "converting" /\ ops[id].phase # "converting")
                => ops[id].phase = "none"
          /\ (ops'[id].phase = "transcribing" /\ ops[id].phase # "transcribing")
                => ops[id].phase \in {"none", "converted"}]_vars

\* C35 witness: two items were started, each once, by processFile callbacks
\* created for different users, and the first is still in flight.
C35_Witness ==
    \E a, b \in FileIds :
        /\ a < b
        /\ ops[a].starts = 1
        /\ ops[b].starts = 1
        /\ ops[a].user # ops[b].user
        /\ ops[a].phase \in {"converting", "transcribing"}
        /\ a \in Ids(files)

\* C36 as claimed: a step made by the processFile run of an item that is no
\* longer in the list stores no job and triggers no auto-export.
C36_NoJobForRemovedItem ==
    [][\A id \in Removed :
          StepOf(id) => (jobs' = jobs /\ exports' = exports)]_vars

\* C37 as claimed: the job stored when an item of the list completes carries
\* the duration the item has in the list at that moment.
C37_JobCarriesListedDuration ==
    [][( /\ pc.step = "completed"
         /\ Len(jobs') = Len(jobs) + 1
         /\ pc.id \in Ids(files) )
       => jobs'[Len(jobs')].audioLengthSeconds = Item(files, pc.id).durationSeconds]_vars

\* C38 as claimed: once disconnect() has returned for a session, no step adds
\* a call of onTranscription or an audio frame for that session, and no step
\* changes the live transcript while every session has been disconnected.
C38_SilentAfterDisconnect ==
    [][/\ \A s \in DOMAIN sessions :
             sessions[s].disconnected =>
                /\ sessions'[s].delivered = sessions[s].delivered
                /\ sessions'[s].sent = sessions[s].sent
       /\ (\A s \in DOMAIN sessions : sessions[s].disconnected)
             => view'.transcript = view.transcript]_vars

\* A text without leading or trailing whitespace, without two spaces or tabs
\* in a row, and without a whitespace character right before one of . , : ; ? !
WellSpaced(t) ==
    /\ t # << >> => (~IsSpace(t[1]) /\ ~IsSpace(t[Len(t)]))
    /\ \A i \in 1..(Len(t) - 1) :
          /\ ~(t[i] \in {" ", "\t"} /\ t[i + 1] \in {" ", "\t"})
          /\ ~(IsSpace(t[i]) /\ t[i + 1] \in {".", ",", ":", ";", "?", "!"})

\* C39: for every non-empty input the text the formatter returns has no
\* leading or trailing whitespace, no run of two or more spaces or tabs, and
\* no whitespace character right before a punctuation mark.
C39_OutputWellSpaced ==
    (norm.step # "input" /\ norm.input # EmptyText) => WellSpaced(norm.once)

\* C39 witness: a text with a leading blank, a blank before a full stop and a
\* filler between blanks has been formatted.
C39_Witness ==
    /\ norm.step = "once"
    /\ norm.input = <<" ", "u", "m", " ", ".">>
    /\ norm.once = <<".">>

\* The job ids that no stored job carries.
NotStored == (1..(MaxJobs + 1)) \ { jobs[i].id : i \in DOMAIN jobs }

\* C40: finalizeJob and assignJob called with a job id that is not stored
\* leave the stored jobs and the stored learning entries as they are.
C40_UnknownJobIdIgnored ==
    \A jobId \in NotStored :
        /\ \A typistId \in Typists : assignJob(jobs, jobId, typistId) = jobs
        /\ \A finalText \in FinalTexts :
              /\ finalizeJob(jobs, learning, jobId, finalText).jobs = jobs
              /\ finalizeJob(jobs, learning, jobId, finalText).learning = learning

\* C40 witness: a job and a learning entry are stored, an id of the calls is
\* not stored, and a call with it leaves both as they are.
C40_Witness ==
    /\ Len(jobs) = 1
    /\ Len(learning) = 1
    /\ 2 \in NotStored
    /\ \E typistId \in Typists : assignJob(jobs, 2, typistId) = jobs
    /\ \E finalText \in FinalTexts :
          finalizeJob(jobs, learning, 2, finalText) = [jobs |-> jobs, learning |-> learning]

====
